---- MODULE Spec2Model ----
(***************************************************************************)
(* A model of parsem: symbols, production rules, grammar normalization,    *)
(* the chart parser and the rankers.                                       *)
(*                                                                         *)
(* JavaScript strings are modelled as sequences of one-character strings,  *)
(* so that charAt, slice, split and concatenation are computed as the      *)
(* code computes them.                                                     *)
(***************************************************************************)
EXTENDS Integers, Sequences, FiniteSets, TLC

VARIABLES
    \* symbol.js: the symbol handed to stripOptional and the two results
    symPc, sym, strip1, strip2,
    \* rule.js: the arguments of `new Rule(...)` and what the constructor did
    rulePc, ruleArgs, ruleOut,
    \* grammar.js: the constructor's position, the grammar's attributes
    \* (thisRules is this.rules), the queue and the tables of processRules,
    \* and the words the grammar's inputs are made of
    gPc, roots, subparsers, thisRules, words, rules,
    lexicalRules, unaryRules, binaryRules,
    generatedLexicalRules, generatedNaryRules,
    \* grammar.js, parse: the position, the arguments s (utterance) and
    \* roots, the tokens, the chart, the loop variables l, i and k, and
    \* the returned array
    pc, utterance, rootsArg, tokens, chart, spanL, spanI, unaryK, parses,
    \* bookkeeping on a call of parse: the sub-parsers and tables read, and
    \* the semantics functions called
    consulted, invoked,
    \* what the caller got from computeDenotation (of parses[n]) and from
    \* scoresAndDenotations
    denotation, scored

symVars == <<symPc, sym, strip1, strip2>>
ruleVars == <<rulePc, ruleArgs, ruleOut>>
grammarVars ==
    <<gPc, roots, subparsers, thisRules, words, rules, lexicalRules,
      unaryRules, binaryRules, generatedLexicalRules, generatedNaryRules>>
parseVars ==
    <<pc, utterance, rootsArg, tokens, chart, spanL, spanI, unaryK, parses,
      consulted, invoked, denotation, scored>>
\* featurize.js, ConcatFeaturizer.transform: what each of this.featurizers
\* returns on the parse (newFeatures, by position) and the object returned
VARIABLES concatPc, newFeatures, features
concatVars == <<concatPc, newFeatures, features>>

\* ranker.js: the position of the ranker's running method, the ranker's
\* class, how the bundle was built (native ES2015 or transpiled by Babel),
\* this.weights, this.weights as it was when the last method was called,
\* the locals of fit, what the last method did, and the numbers of calls
\* of any method and of fit
VARIABLES
    rankPc, rankerClass, build, weights, entryWeights, fitFrame, rankOut,
    rankCalls, fits
rankVars ==
    <<rankPc, rankerClass, build, weights, entryWeights, fitFrame, rankOut,
      rankCalls, fits>>

\* the caller of parse: what the call before the current one returned
VARIABLES earlier
callVars == <<earlier>>

\* featurize.js, ParsePrecedenceFeaturizer.transform: its position, the
\* parse it is given and the features it returns
VARIABLES precPc, precParse, precFeatures
precVars == <<precPc, precParse, precFeatures>>

\* random.js, shuffle: its position, the array it is given (arr), arrCopy
\* and the loop variable i
VARIABLES shufPc, shufArr, shufCopy, shufI
shuffleVars == <<shufPc, shufArr, shufCopy, shufI>>

vars == <<symVars, ruleVars, grammarVars, parseVars, concatVars, rankVars, callVars, precVars, shuffleVars>>

-----------------------------------------------------------------------------
(* Bounds of the model. *)

\* longest symbol handed to the symbol functions
MaxSymLen == 3
\* longest rhs string handed to the Rule constructor
MaxRhsLen == 3
\* longest rhs array handed to the Rule constructor
MaxRhsArr == 2
\* most words in an utterance handed to parse
MaxTokens == 3
\* most derivations the unary loop is followed to in one chart cell
MaxCell == 6
\* most rules on a path of a derivation from the author's rules
MaxDepth == 4
\* most featurizers handed to a ConcatFeaturizer
MaxFeaturizers == 2
\* most samples handed to one call of fit
MaxSamples == 2
\* most epochs of one call of fit that are followed
MaxEpochs == 2
\* most calls of the ranker's methods
MaxCalls == 2

-----------------------------------------------------------------------------
(* String helpers (String.prototype / Array.prototype). *)

\* all sequences over S of length at most n
SeqsUpTo(S, n) ==
    UNION { [1..m -> S] : m \in 0..n }

\* s.charAt(0): the empty string when s is empty
charAt0(s) ==
    IF Len(s) > 0 THEN s[1] ELSE ""

\* s.slice(from): the suffix from 0-based offset `from`
sliceFrom(s, from) ==
    SubSeq(s, from + 1, Len(s))

\* s.slice(from, to): 0-based, half-open
slice(s, from, to) ==
    SubSeq(s, from + 1, to)

\* the 1-based positions of character c in s
Positions(s, c) ==
    { p \in 1..Len(s) : s[p] = c }

RECURSIVE split(_, _)
\* s.split(c) for a one-character separator c: "" gives [""], and every
\* separator cuts, so adjacent separators give empty strings
split(s, c) ==
    IF Positions(s, c) = {}
    THEN <<s>>
    ELSE LET p == CHOOSE q \in Positions(s, c) :
                      \A r \in Positions(s, c) : q <= r
         IN  <<SubSeq(s, 1, p - 1)>> \o split(SubSeq(s, p + 1, Len(s)), c)

RECURSIVE join(_, _)
\* parts.join(sep)
join(parts, sep) ==
    IF Len(parts) = 0 THEN <<>>
    ELSE IF Len(parts) = 1 THEN parts[1]
    ELSE parts[1] \o sep \o join(Tail(parts), sep)

-----------------------------------------------------------------------------
(* JavaScript values, for the code that checks the type of its arguments. *)

JsString(s) == [t |-> "String", s |-> s]
JsArray(a) == [t |-> "Array", a |-> a]
JsFunction(f) == [t |-> "Function", f |-> f]
JsNumber(n) == [t |-> "Number", n |-> n]
JsNull == [t |-> "Null"]

\* null and undefined have no constructor
isType(instance, type) ==
    /\ instance.t \notin {"Null", "Undefined"}
    /\ instance.t = type

-----------------------------------------------------------------------------
(* symbol.js *)

isTerminal(s) ==
    charAt0(s) # "$" \/ Len(s) <= 1

isNonTerminal(s) ==
    ~isTerminal(s)

isOptional(s) ==
    charAt0(s) = "?" /\ Len(s) > 1

stripOptional(s) ==
    IF isOptional(s) THEN sliceFrom(s, 1) ELSE s

-----------------------------------------------------------------------------
(* rule.js *)

\* an assertion that failed: the constructor throws
Raise(msg) == [ok |-> FALSE, error |-> msg]
Return(v) == [ok |-> TRUE, value |-> v]

\* new Rule(tag, lhs, rhs, semantics): the assertions in source order
Rule(tag, lhs, rhs, semantics) ==
    IF ~isType(tag, "String")
    THEN Raise("Rule: tag must be a String.")
    ELSE IF ~isType(lhs, "String")
    THEN Raise("Rule: lhs must be a String.")
    ELSE IF ~isNonTerminal(lhs.s)
    THEN Raise("Rule: lhs must be a non-terminal.")
    ELSE IF ~(isType(rhs, "String") \/ isType(rhs, "Array"))
    THEN Raise("Rule: rhs must be a String or an Array.")
    ELSE LET thisRhs == IF isType(rhs, "String")
                        THEN split(rhs.s, " ")
                        ELSE rhs.a
         IN  IF ~(Len(thisRhs) > 0)
             THEN Raise("Rule: arity 0 rules are not allowed.")
             ELSE IF ~isType(semantics, "Function")
             THEN Raise("Rule: semantics must be a function of the child denotations.")
             ELSE Return([tag |-> tag.s,
                          lhs |-> lhs.s,
                          rhs |-> thisRhs,
                          semantics |-> semantics.f])

arity(rule) == Len(rule.rhs)
isUnary(rule) == Len(rule.rhs) = 1
isBinary(rule) == Len(rule.rhs) = 2
isNary(rule) == Len(rule.rhs) > 2
isLexical(rule) == \A p \in 1..Len(rule.rhs) : isTerminal(rule.rhs[p])
isCategorical(rule) == \A p \in 1..Len(rule.rhs) : isNonTerminal(rule.rhs[p])
\* a variant of the predicate that takes no rule for mixed
isMixedNever(rule) == FALSE

isMixed(rule) == ~(isLexical(rule) \/ isCategorical(rule))
hasOptionals(rule) == \E p \in 1..Len(rule.rhs) : isOptional(rule.rhs[p])

\* a semantics function supplied by the author of a rule, named by `id`
AuthorSem(id) == [k |-> "author", id |-> id]

-----------------------------------------------------------------------------
(* tokenize.js (basicTokenizer): splits on whitespace, drops punctuation   *)
(* and lowercases; a token keeps the offsets of the text it was cut from.  *)

isSpace(c) == c = " "
isPunctuation(c) == c \in {"!", ",", "?", ".", ";"}

toLowerCase(c) ==
    CASE c = "A" -> "a"
      [] c = "B" -> "b"
      [] OTHER -> c

\* the token text of a whitespace-delimited piece of the input
normalizeToken(piece) ==
    LET kept == SelectSeq(piece, LAMBDA c : ~isPunctuation(c))
    IN  [p \in 1..Len(kept) |-> toLowerCase(kept[p])]

RECURSIVE tokenizeFrom(_, _)
\* the tokens of s that start at or after the 0-based offset `from`
tokenizeFrom(s, from) ==
    IF from >= Len(s) THEN <<>>
    ELSE IF isSpace(s[from + 1]) THEN tokenizeFrom(s, from + 1)
    ELSE LET end == CHOOSE e \in (from + 1)..Len(s) :
                        /\ \A q \in (from + 1)..e : ~isSpace(s[q])
                        /\ e = Len(s) \/ isSpace(s[e + 1])
             tok == normalizeToken(slice(s, from, end))
         IN  (IF Len(tok) = 0
              THEN <<>>
              ELSE <<[token |-> tok, span |-> <<from, end>>]>>)
             \o tokenizeFrom(s, end)

tokenize(s) == tokenizeFrom(s, 0)

\* tokenizer.tokenize(s).map(t => t.token)
tokensOf(s) ==
    LET ts == tokenize(s) IN [p \in 1..Len(ts) |-> ts[p].token]

-----------------------------------------------------------------------------
(* Semantics functions, as the closures the code builds, and the values    *)
(* they return.                                                            *)

\* an author's function that throws whenever it is called
ThrowingSem(id) == [k |-> "throws", id |-> id]
\* processOptionalRule: (...args) => { args.splice(optionalIndex, 0, null); ... }
InsertNull(optionalIndex, inner) ==
    [k |-> "insertNull", at |-> optionalIndex, inner |-> inner]
\* processNaryRule: (x, ...y) => rule.semantics(x[0], x[1], ...y)
Destructure(inner) == [k |-> "destructure", inner |-> inner]
\* processNaryRule: (...args) => args
Tuple == [k |-> "tuple"]
\* processMixedRule: () => lexicalElement
Literal(w) == [k |-> "literal", w |-> w]
\* IgnorableParse: () => null
NullSem == [k |-> "null"]
\* DigitParser: () => num
NumberSem(num) == [k |-> "number", num |-> num]

JsUndefined == [t |-> "Undefined"]
JsNaN == [t |-> "NaN"]
\* what an author's function `id` returns on `args`
Value(id, args) == [t |-> "Value", f |-> id, args |-> args]
\* the outcome of a call that threw
Thrown == [t |-> "Thrown"]

\* args.splice(at, 0, item): an index past the end inserts at the end
splice(args, at, item) ==
    LET m == IF at < Len(args) THEN at ELSE Len(args)
    IN  SubSeq(args, 1, m) \o <<item>> \o SubSeq(args, m + 1, Len(args))

\* x[n] for a 0-based n
element(x, n) ==
    IF x.t = "Array" /\ n < Len(x.a) THEN x.a[n + 1] ELSE JsUndefined

RECURSIVE apply(_, _)
\* semantics(...args)
apply(semantics, args) ==
    CASE semantics.k = "author" -> Value(semantics.id, args)
      [] semantics.k = "throws" -> Thrown
      [] semantics.k = "insertNull" ->
            apply(semantics.inner, splice(args, semantics.at, JsNull))
      [] semantics.k = "destructure" ->
            IF Len(args) = 0 \/ args[1].t \in {"Null", "Undefined"}
            THEN Thrown
            ELSE apply(semantics.inner,
                       <<element(args[1], 0), element(args[1], 1)>> \o Tail(args))
      [] semantics.k = "tuple" -> JsArray(args)
      [] semantics.k = "literal" -> JsString(semantics.w)
      [] semantics.k = "null" -> JsNull
      [] semantics.k = "number" -> semantics.num

-----------------------------------------------------------------------------
(* parse.js and derivation.js *)

\* new Parse(...): the constructor stores its arguments
Parse(tag, category, span, children, semantics) ==
    [tag |-> tag, category |-> category, span |-> span,
     children |-> children, semantics |-> semantics]

\* a variant of the constructor that evaluates the semantics eagerly
constructorCallsEager(semantics) == {semantics}

\* the semantics functions the Parse constructor calls: none
constructorCalls(semantics) == {}

\* new Derivation(rule, span, children)
Derivation(rule, span, children) ==
    [tag |-> rule.tag, category |-> rule.lhs, span |-> span,
     children |-> children, semantics |-> rule.semantics, rule |-> rule]

\* a child is a reference to a derivation held in a chart cell
childRef(i, j, n) == [i |-> i, j |-> j, n |-> n]
deref(ch, ref) == ch[<<ref.i, ref.j>>][ref.n]

RECURSIVE computeDenotation(_, _)
\* parse.computeDenotation(): the children first, in order; an exception
\* of a child or of the semantics reaches the caller
computeDenotation(ch, parse) ==
    LET dens == [c \in 1..Len(parse.children) |->
                    computeDenotation(ch, deref(ch, parse.children[c]))]
    IN  IF \E c \in 1..Len(dens) : dens[c] = Thrown
        THEN Thrown
        ELSE apply(parse.semantics, dens)

-----------------------------------------------------------------------------
(* The sub-parsers: parsers/ignore.js and parsers/numbers.js (DigitParser) *)

IgnorableTag == <<"i", "g", "n", "o", "r", "a", "b", "l", "e">>
IgnorableCategory == <<"$", "I", "g", "n", "o", "r", "a", "b", "l", "e">>
NumberTag == <<"n", "u", "m", "b", "e", "r">>
NumberCategory == <<"$", "N", "u", "m", "b", "e", "r">>

IgnorableParser(s) ==
    <<Parse(IgnorableTag, IgnorableCategory, s, <<>>, NullSem)>>

isDigit(c) == c \in {"0", "1", "2", "3", "4", "5", "6", "7", "8", "9"}
allDigits(x) == \A p \in 1..Len(x) : isDigit(x[p])

\* \d{1,3}(\,\d{3})*
commaGrouped(x) ==
    \E n \in 1..3 :
        /\ n <= Len(x)
        /\ allDigits(SubSeq(x, 1, n))
        /\ (Len(x) - n) % 4 = 0
        /\ \A g \in 0..(((Len(x) - n) \div 4) - 1) :
              /\ x[n + 4 * g + 1] = ","
              /\ allDigits(SubSeq(x, n + 4 * g + 2, n + 4 * g + 4))

\* /^(\d{1,3}(\,\d{3})*|\d+)?(\.\d*)?[.,?!;]?$/.test(s)
numRegex(s) ==
    \E a \in 0..Len(s) : \E b \in a..Len(s) :
        LET int == SubSeq(s, 1, a)
            frac == SubSeq(s, a + 1, b)
            punct == SubSeq(s, b + 1, Len(s))
        IN  /\ int = <<>> \/ commaGrouped(int) \/ allDigits(int)
            /\ frac = <<>> \/ (frac[1] = "." /\ allDigits(Tail(frac)))
            /\ punct = <<>> \/ (Len(punct) = 1 /\ isPunctuation(punct[1]))

\* s.replace(',', ''): the first comma only
replaceFirstComma(s) ==
    IF Positions(s, ",") = {} THEN s
    ELSE LET p == CHOOSE q \in Positions(s, ",") :
                      \A r \in Positions(s, ",") : q <= r
         IN  SubSeq(s, 1, p - 1) \o SubSeq(s, p + 1, Len(s))

digitValue(c) ==
    CASE c = "0" -> 0 [] c = "1" -> 1 [] c = "2" -> 2 [] c = "3" -> 3
      [] c = "4" -> 4 [] c = "5" -> 5 [] c = "6" -> 6 [] c = "7" -> 7
      [] c = "8" -> 8 [] c = "9" -> 9

RECURSIVE digitsValue(_)
digitsValue(x) ==
    IF Len(x) = 0 THEN 0
    ELSE 10 * digitsValue(SubSeq(x, 1, Len(x) - 1)) + digitValue(x[Len(x)])

\* parseFloat(x) on the strings numRegex accepts without a fraction: the
\* value of the leading digits, NaN when there are none
parseFloat(x) ==
    LET n == CHOOSE m \in 0..Len(x) :
                 /\ allDigits(SubSeq(x, 1, m))
                 /\ m = Len(x) \/ ~isDigit(x[m + 1])
    IN  IF n = 0 THEN JsNaN ELSE JsNumber(digitsValue(SubSeq(x, 1, n)))

DigitParser(s) ==
    IF numRegex(s)
    THEN <<Parse(NumberTag, NumberCategory, s, <<>>,
                 NumberSem(parseFloat(replaceFirstComma(s))))>>
    ELSE <<>>

\* this.subparsers[k].parse(stringSpan)
subparserParse(name, stringSpan) ==
    CASE name = "ignorableParser" -> IgnorableParser(stringSpan)
      [] name = "digitParser" -> DigitParser(stringSpan)

-----------------------------------------------------------------------------
(* grammar.js: the Grammar constructor (processRules) *)

\* new Rule(...) on a tag, an lhs and a semantics of the right types
newRule(tag, lhs, rhs, semantics) ==
    Rule(JsString(tag), JsString(lhs), rhs, JsFunction(semantics))

\* the values of constructor calls that all returned
valuesOf(made) == [p \in 1..Len(made) |-> made[p].value]
allReturned(made) == \A p \in 1..Len(made) : made[p].ok

\* rule.rhs.findIndex(isOptional), 1-based
optionalIndexOf(rule) ==
    CHOOSE p \in 1..Len(rule.rhs) :
        /\ isOptional(rule.rhs[p])
        /\ \A q \in 1..(p - 1) : ~isOptional(rule.rhs[q])

\* the two rules processOptionalRule constructs, in the order it pushes them
processOptionalRule(rule) ==
    LET p == optionalIndexOf(rule)
        optionalWord == stripOptional(rule.rhs[p])
        rhsWithOption == [rule.rhs EXCEPT ![p] = optionalWord]
        rhsWithoutOption ==
            SubSeq(rule.rhs, 1, p - 1) \o SubSeq(rule.rhs, p + 1, Len(rule.rhs))
    IN  << newRule(rule.tag \o <<"_">> \o optionalWord,
                   rule.lhs,
                   JsArray(rhsWithOption),
                   rule.semantics),
           newRule(rule.tag \o <<"_", "~">> \o optionalWord,
                   rule.lhs,
                   JsArray(rhsWithoutOption),
                   InsertNull(p - 1, rule.semantics)) >>

\* the key under which processMixedRule remembers a lexical element
lexicalElementKey(lexicalElement) ==
    join(tokensOf(lexicalElement), <<"-">>)

RECURSIVE mixedLexicalRules(_, _)
\* the loop over lexicalElements: the rules constructed and the keys
\* remembered at its end
mixedLexicalRules(lexicalElements, generated) ==
    IF Len(lexicalElements) = 0
    THEN [made |-> <<>>, generated |-> generated]
    ELSE LET lexicalElement == Head(lexicalElements)
             key == lexicalElementKey(lexicalElement)
         IN  IF key \notin generated
             THEN LET rest == mixedLexicalRules(Tail(lexicalElements),
                                                generated \cup {key})
                  IN  [made |-> <<newRule(lexicalElement,
                                          <<"$", "@">> \o key,
                                          JsString(lexicalElement),
                                          Literal(lexicalElement))>>
                                \o rest.made,
                       generated |-> rest.generated]
             ELSE mixedLexicalRules(Tail(lexicalElements), generated)

\* the lifted rule, then one lexical rule per new lexical element
processMixedRule(rule, generated) ==
    LET newRhs == [p \in 1..Len(rule.rhs) |->
                      IF isTerminal(rule.rhs[p])
                      THEN <<"$", "@">> \o rule.rhs[p]
                      ELSE rule.rhs[p]]
        lexicalElements == SelectSeq(rule.rhs, isTerminal)
        lexical == mixedLexicalRules(lexicalElements, generated)
    IN  [made |-> <<newRule(rule.tag, rule.lhs, JsArray(newRhs), rule.semantics)>>
                  \o lexical.made,
         generated |-> lexical.generated]

\* a variant that makes the rule of the intermediate category every time
processNaryRuleEveryTime(rule, generated) ==
    LET firstNonTerminal == rule.rhs[1]
        secondNonTerminal == rule.rhs[2]
        restNonTerminals == SubSeq(rule.rhs, 3, Len(rule.rhs))
        newRuleLhs == firstNonTerminal \o <<"_">> \o secondNonTerminal
        newRuleRhs == <<firstNonTerminal, secondNonTerminal>>
        oldRule == newRule(rule.tag, rule.lhs,
                           JsArray(<<newRuleLhs>> \o restNonTerminals),
                           Destructure(rule.semantics))
    IN  [made |-> <<oldRule,
                    newRule(rule.tag \o <<"_">> \o newRuleLhs,
                            newRuleLhs,
                            JsArray(newRuleRhs),
                            Tuple)>>,
         generated |-> generated \cup {newRuleLhs}]

\* the residual rule, then the rule of the intermediate category if new
processNaryRule(rule, generated) ==
    LET firstNonTerminal == rule.rhs[1]
        secondNonTerminal == rule.rhs[2]
        restNonTerminals == SubSeq(rule.rhs, 3, Len(rule.rhs))
        newRuleLhs == firstNonTerminal \o <<"_">> \o secondNonTerminal
        newRuleRhs == <<firstNonTerminal, secondNonTerminal>>
        oldRule == newRule(rule.tag, rule.lhs,
                           JsArray(<<newRuleLhs>> \o restNonTerminals),
                           Destructure(rule.semantics))
    IN  IF newRuleLhs \notin generated
        THEN [made |-> <<oldRule,
                         newRule(rule.tag \o <<"_">> \o newRuleLhs,
                                 newRuleLhs,
                                 JsArray(newRuleRhs),
                                 Tuple)>>,
              generated |-> generated \cup {newRuleLhs}]
        ELSE [made |-> <<oldRule>>, generated |-> generated]

\* an array used as a property key: its elements joined with ","
arrayKey(array) == join(array, <<",">>)

\* the key of a lexical rule in lexicalRules
lexicalKey(rule) ==
    arrayKey([p \in 1..Len(rule.rhs) |->
                 join(tokensOf(rule.rhs[p]), <<",">>)])

\* table[key] || []
lookup(table, key) ==
    IF key \in DOMAIN table THEN table[key] ELSE <<>>

\* if (!table.hasOwnProperty(key)) table[key] = []; table[key].push(rule)
\* a variant that keeps one rule for each lhs and rhs
installOnce(table, key, rule) ==
    IF key \in DOMAIN table
    THEN IF \E n \in 1..Len(table[key]) :
               table[key][n].lhs = rule.lhs /\ table[key][n].rhs = rule.rhs
         THEN table
         ELSE [table EXCEPT ![key] = Append(@, rule)]
    ELSE [q \in DOMAIN table \cup {key} |->
             IF q = key THEN <<rule>> ELSE table[q]]

install(table, key, rule) ==
    IF key \in DOMAIN table
    THEN [table EXCEPT ![key] = Append(@, rule)]
    ELSE [q \in DOMAIN table \cup {key} |->
             IF q = key THEN <<rule>> ELSE table[q]]

emptyTable == [q \in {} |-> <<>>]

-----------------------------------------------------------------------------
(* grammar.js: Grammar.parse *)

\* a variant of the test that never returns early
noTokensNever(toks) == FALSE

\* tokens.length === 0
noTokens(toks) == Len(toks) = 0

\* a variant that rebuilds the span from the token texts
stringSpanFromTokens(u, toks, i, j) ==
    join([p \in 1..(j - i) |-> toks[i + p].token], <<" ">>)

\* s.slice(currentTokens[0].span[0], currentTokens[last].span[1]) for the
\* tokens i..j-1 (0-based)
stringSpanOf(u, toks, i, j) ==
    slice(u, toks[i + 1].span[1], toks[j].span[2])

\* currentTokens.map(t => t.token)
tokenSpanOf(toks, i, j) ==
    [p \in 1..(j - i) |-> toks[i + p].token]

RECURSIVE flatten(_)
\* the concatenation of a sequence of sequences
flatten(seqs) ==
    IF Len(seqs) = 0 THEN <<>> ELSE Head(seqs) \o flatten(Tail(seqs))

\* a variant that keeps a sub-parser's parse only when its category is the
\* lhs of a rule of the grammar
applySubparsersOfHostCategories(subs, stringSpan) ==
    SelectSeq(flatten([n \in 1..Len(subs) |-> subparserParse(subs[n], stringSpan)]),
              LAMBDA p : \E r \in 1..Len(thisRules) : thisRules[r].lhs = p.category)

\* the loop over this.subparsers: every parse of every sub-parser, pushed
\* as returned
applySubparsers(subs, stringSpan) ==
    flatten([n \in 1..Len(subs) |-> subparserParse(subs[n], stringSpan)])

\* the loop over the lexical rules that match the token span
applyLexicalRules(lexRules, tokenSpan, stringSpan) ==
    LET matching == lookup(lexRules, arrayKey(tokenSpan))
    IN  [n \in 1..Len(matching) |-> Derivation(matching[n], stringSpan, <<>>)]

\* the binary rules for a pair of parses
binaryRulesFor(binRules, lParse, rParse) ==
    lookup(binRules, arrayKey(<<lParse.category, rParse.category>>))

\* the loops over split points, left parses, right parses and rules
\* a variant that takes the split points from the last to the first
applyBinaryRulesLastSplitFirst(ch, binRules, i, j, stringSpan) ==
    flatten([back \in 1..(j - i - 1) |->
        LET point == j - i - back
            lParses == lookup(ch, <<i, i + point>>)
            rParses == lookup(ch, <<i + point, j>>)
        IN  flatten([m \in 1..Len(lParses) |->
                flatten([n \in 1..Len(rParses) |->
                    LET found == binaryRulesFor(binRules, lParses[m], rParses[n])
                    IN  [r \in 1..Len(found) |->
                            Derivation(found[r], stringSpan,
                                       <<childRef(i, i + point, m),
                                         childRef(i + point, j, n)>>)]])])])

applyBinaryRules(ch, binRules, i, j, stringSpan) ==
    flatten([sp \in 1..(j - i - 1) |->
        LET lParses == lookup(ch, <<i, i + sp>>)
            rParses == lookup(ch, <<i + sp, j>>)
        IN  flatten([m \in 1..Len(lParses) |->
                flatten([n \in 1..Len(rParses) |->
                    LET found == binaryRulesFor(binRules, lParses[m], rParses[n])
                    IN  [r \in 1..Len(found) |->
                            Derivation(found[r], stringSpan,
                                       <<childRef(i, i + sp, m),
                                         childRef(i + sp, j, n)>>)]])])])

\* whether the binary step reads binaryRules at all
binaryPairs(ch, i, j) ==
    \E sp \in 1..(j - i - 1) :
        /\ Len(lookup(ch, <<i, i + sp>>)) > 0
        /\ Len(lookup(ch, <<i + sp, j>>)) > 0

\* a variant of the unary loop whose derivations carry no child
applyUnaryRulesChildless(unRules, cell, i, j, k, stringSpan) ==
    LET parse == cell[k + 1]
        found == lookup(unRules, parse.category)
    IN  [h \in 1..Len(found) |-> Derivation(found[h], stringSpan, <<>>)]

\* one iteration of the unary loop: the derivations pushed for spanParses[k]
applyUnaryRules(unRules, cell, i, j, k, stringSpan) ==
    LET parse == cell[k + 1]
        found == lookup(unRules, parse.category)
    IN  [h \in 1..Len(found) |->
            Derivation(found[h], stringSpan, <<childRef(i, j, k + 1)>>)]

\* a variant that has no default for an omitted argument
effectiveRootsNoDefault(arg, thisRoots) ==
    IF arg.t = "Undefined" THEN <<>> ELSE arg.a

\* the roots in force: the argument, or this.roots when it is omitted
effectiveRoots(arg, thisRoots) ==
    IF arg.t = "Undefined" THEN thisRoots ELSE arg.a

\* the filter of the full-span cell against the roots
filterRoots(cell, rts) ==
    IF Len(rts) > 0
    THEN SelectSeq(cell, LAMBDA p : \E r \in 1..Len(rts) : rts[r] = p.category)
    ELSE cell

\* a call of one of `calls` threw
anyThrows(calls) ==
    \E sem \in calls : apply(sem, <<>>) = Thrown

\* the semantics functions the constructors of new parses call
callsOf(newParses) ==
    UNION { constructorCalls(newParses[n].semantics) : n \in 1..Len(newParses) }

RECURSIVE semanticsCalled(_, _)
\* the semantics functions computeDenotation calls on a parse: those of the
\* children in order up to the first that throws, then its own
semanticsCalled(ch, parse) ==
    LET kids == [c \in 1..Len(parse.children) |-> deref(ch, parse.children[c])]
        throwing == { c \in 1..Len(kids) : computeDenotation(ch, kids[c]) = Thrown }
        last == IF throwing = {} THEN Len(kids)
                ELSE CHOOSE c \in throwing : \A d \in throwing : c <= d
    IN  UNION { semanticsCalled(ch, kids[c]) : c \in 1..last }
        \cup (IF throwing = {} THEN {parse.semantics} ELSE {})

-----------------------------------------------------------------------------
(* The grammars the constructor is given, and the words of their inputs.   *)

\* a rule the author wrote: new Rule(tag, lhs, rhs, semantics) on strings
authorRule(tag, lhs, rhs, semantics) ==
    Rule(JsString(tag), JsString(lhs), JsString(rhs), JsFunction(semantics)).value

sp == <<" ">>
symR == <<"$", "R">>
symN == <<"$", "N">>
symP == <<"$", "P">>
symI == <<"$", "I">>
symE == <<"$", "E">>
symA == <<"$", "A">>
symB == <<"$", "B">>

\* $R -> $N, $N -> a, $P -> b, $N -> $N $P $N
ArithGrammar ==
    [roots |-> <<symP, symR>>, subparsers |-> <<>>,
     rules |-> << authorRule(<<"r">>, symR, symN, AuthorSem("root")),
                  authorRule(<<"o">>, symN, <<"a">>, AuthorSem("one")),
                  authorRule(<<"p">>, symP, <<"b">>, AuthorSem("plus")),
                  authorRule(<<"s">>, symN, symN \o sp \o symP \o sp \o symN,
                             AuthorSem("sum")) >>,
     words |-> {<<"a">>, <<"b">>, <<"a", "!">>}]

\* $R -> ?$I $N ?b, $I -> b, $N -> a
OptionalGrammar ==
    [roots |-> <<symR>>, subparsers |-> <<>>,
     rules |-> << authorRule(<<"r">>, symR,
                             <<"?">> \o symI \o sp \o symN \o sp \o <<"?", "b">>,
                             AuthorSem("root")),
                  authorRule(<<"i">>, symI, <<"b">>, AuthorSem("ignore")),
                  authorRule(<<"o">>, symN, <<"a">>, AuthorSem("one")) >>,
     words |-> {<<"a">>, <<"b">>}]

\* $A -> a, $A -> $B, $B -> $A: the unary rules form a cycle
CyclicGrammar ==
    [roots |-> <<>>, subparsers |-> <<>>,
     rules |-> << authorRule(<<"a">>, symA, <<"a">>, AuthorSem("one")),
                  authorRule(<<"u">>, symA, symB, AuthorSem("up")),
                  authorRule(<<"d">>, symB, symA, AuthorSem("down")) >>,
     words |-> {<<"a">>}]

\* $A -> ?a: every rhs symbol is optional
AllOptionalGrammar ==
    [roots |-> <<symA>>, subparsers |-> <<>>,
     rules |-> << authorRule(<<"a">>, symA, <<"?", "a">>, AuthorSem("one")) >>,
     words |-> {<<"a">>}]

\* $R -> $N B, $N -> a: a terminal the tokenizer changes, in a mixed rule
UpperGrammar ==
    [roots |-> <<symR>>, subparsers |-> <<>>,
     rules |-> << authorRule(<<"r">>, symR, symN \o sp \o <<"B">>,
                             AuthorSem("root")),
                  authorRule(<<"o">>, symN, <<"a">>, AuthorSem("one")) >>,
     words |-> {<<"a">>, <<"B">>}]

\* $E -> $Number, $R -> $Ignorable $E over the two sub-parsers
SubparserGrammar ==
    [roots |-> <<symR>>, subparsers |-> <<"digitParser", "ignorableParser">>,
     rules |-> << authorRule(<<"e">>, symE, NumberCategory, AuthorSem("expr")),
                  authorRule(<<"r">>, symR, IgnorableCategory \o sp \o symE,
                             AuthorSem("root")) >>,
     words |-> {<<"a">>, <<"1">>, <<"2", ",">>}]

\* $N -> a twice with the same semantics, and $N -> a b
DuplicateGrammar ==
    [roots |-> <<symN>>, subparsers |-> <<>>,
     rules |-> << authorRule(<<"x">>, symN, <<"a">>, AuthorSem("one")),
                  authorRule(<<"y">>, symN, <<"a">>, AuthorSem("one")),
                  authorRule(<<"z">>, symN, <<"a", " ", "b">>, AuthorSem("two")) >>,
     words |-> {<<"a">>, <<"b">>}]

\* $R -> $N, $N -> a whose semantics throws, $N -> b
ThrowingGrammar ==
    [roots |-> <<symR>>, subparsers |-> <<>>,
     rules |-> << authorRule(<<"r">>, symR, symN, AuthorSem("root")),
                  authorRule(<<"t">>, symN, <<"a">>, ThrowingSem("boom")),
                  authorRule(<<"o">>, symN, <<"b">>, AuthorSem("one")) >>,
     words |-> {<<"a">>, <<"b">>}]

Grammars ==
    {ArithGrammar, OptionalGrammar, CyclicGrammar, AllOptionalGrammar,
     UpperGrammar, SubparserGrammar, DuplicateGrammar, ThrowingGrammar}

\* the utterances over a set of words: up to MaxTokens words joined by one
\* space, and inputs with leading, doubled and trailing whitespace or with
\* nothing but whitespace and punctuation
Utterances(ws) ==
    { join(u, sp) : u \in SeqsUpTo(ws, MaxTokens) }
    \cup { sp \o w \o sp \o sp \o w \o sp : w \in ws }
    \cup { sp, <<"!">>, <<" ", "!", " ">> }

\* the roots argument of parse: omitted, empty, or an array of categories
RootsArgs == {JsUndefined, JsArray(<<>>), JsArray(<<symA, symN>>)}

-----------------------------------------------------------------------------
(* Symbol functions: stripOptional applied once, then to its own result. *)

SymChars == {"?", "$", "a"}
SymInputs == SeqsUpTo(SymChars, MaxSymLen)

StripOnce ==
    /\ symPc = "start"
    /\ strip1' = stripOptional(sym)
    /\ symPc' = "once"
    /\ UNCHANGED <<sym, strip2>>

StripTwice ==
    /\ symPc = "once"
    /\ strip2' = stripOptional(strip1)
    /\ symPc' = "twice"
    /\ UNCHANGED <<sym, strip1>>

-----------------------------------------------------------------------------
(* Rule construction on arguments of every type the assertions tell apart. *)

RhsChars == {"a", "$", " "}
RuleTags == {JsString(<<"x">>), JsNumber(1)}
RuleLhss == {JsString(<<"$", "a">>), JsString(<<"a">>), JsString(<<"$">>), JsNull}
RuleRhss ==
    { JsString(s) : s \in SeqsUpTo(RhsChars, MaxRhsLen) }
    \cup { JsArray(a) : a \in SeqsUpTo({<<"a">>, <<"$", "b">>}, MaxRhsArr) }
    \cup { JsNull }
RuleSems == {JsFunction(AuthorSem("f")), JsNull}

Construct ==
    /\ rulePc = "start"
    /\ ruleOut' = Rule(ruleArgs.tag, ruleArgs.lhs, ruleArgs.rhs,
                       ruleArgs.semantics)
    /\ rulePc' = "constructed"
    /\ UNCHANGED ruleArgs

-----------------------------------------------------------------------------
(* grammar.js: the Grammar constructor, one action per iteration of the    *)
(* while loop of processRules.                                             *)

\* rules.shift() is at hand
shifting == gPc = "processRules" /\ Len(rules) > 0

\* a `new Rule` of a helper threw: the constructor is left by the exception
constructorThrows ==
    /\ gPc' = "failed"
    /\ rules' = Tail(rules)
    /\ UNCHANGED <<generatedLexicalRules, generatedNaryRules>>

ProcessOptionalRule ==
    /\ shifting
    /\ hasOptionals(Head(rules))
    /\ LET made == processOptionalRule(Head(rules))
       IN  IF allReturned(made)
           THEN /\ rules' = Tail(rules) \o valuesOf(made)
                /\ UNCHANGED <<gPc, generatedLexicalRules, generatedNaryRules>>
           ELSE constructorThrows
    /\ UNCHANGED <<roots, subparsers, thisRules, words,
                   lexicalRules, unaryRules, binaryRules>>

ProcessMixedRule ==
    /\ shifting
    /\ ~hasOptionals(Head(rules))
    /\ isMixed(Head(rules))
    /\ LET out == processMixedRule(Head(rules), generatedLexicalRules)
       IN  IF allReturned(out.made)
           THEN /\ rules' = Tail(rules) \o valuesOf(out.made)
                /\ generatedLexicalRules' = out.generated
                /\ UNCHANGED <<gPc, generatedNaryRules>>
           ELSE constructorThrows
    /\ UNCHANGED <<roots, subparsers, thisRules, words,
                   lexicalRules, unaryRules, binaryRules>>

ProcessNaryRule ==
    /\ shifting
    /\ ~hasOptionals(Head(rules))
    /\ ~isMixed(Head(rules))
    /\ isNary(Head(rules)) /\ ~isLexical(Head(rules))
    /\ LET out == processNaryRule(Head(rules), generatedNaryRules)
       IN  IF allReturned(out.made)
           THEN /\ rules' = Tail(rules) \o valuesOf(out.made)
                /\ generatedNaryRules' = out.generated
                /\ UNCHANGED <<gPc, generatedLexicalRules>>
           ELSE constructorThrows
    /\ UNCHANGED <<roots, subparsers, thisRules, words,
                   lexicalRules, unaryRules, binaryRules>>

\* none of the three rewriting branches takes the rule
installing ==
    /\ shifting
    /\ ~hasOptionals(Head(rules))
    /\ ~isMixed(Head(rules))
    /\ ~(isNary(Head(rules)) /\ ~isLexical(Head(rules)))

InstallLexicalRule ==
    /\ installing
    /\ isLexical(Head(rules))
    /\ lexicalRules' = install(lexicalRules, lexicalKey(Head(rules)), Head(rules))
    /\ rules' = Tail(rules)
    /\ UNCHANGED <<gPc, roots, subparsers, thisRules, words, unaryRules,
                   binaryRules, generatedLexicalRules, generatedNaryRules>>

InstallUnaryRule ==
    /\ installing
    /\ ~isLexical(Head(rules))
    /\ isUnary(Head(rules))
    /\ unaryRules' = install(unaryRules, arrayKey(Head(rules).rhs), Head(rules))
    /\ rules' = Tail(rules)
    /\ UNCHANGED <<gPc, roots, subparsers, thisRules, words, lexicalRules,
                   binaryRules, generatedLexicalRules, generatedNaryRules>>

\* the last two branches: a binary rule is installed, anything else is a
\* TypeError
InstallBinaryRule ==
    /\ installing
    /\ ~isLexical(Head(rules))
    /\ ~isUnary(Head(rules))
    /\ rules' = Tail(rules)
    /\ IF isBinary(Head(rules))
       THEN /\ binaryRules' =
                   install(binaryRules, arrayKey(Head(rules).rhs), Head(rules))
            /\ UNCHANGED gPc
       ELSE /\ gPc' = "failed"
            /\ UNCHANGED binaryRules
    /\ UNCHANGED <<roots, subparsers, thisRules, words, lexicalRules,
                   unaryRules, generatedLexicalRules, generatedNaryRules>>

\* the queue is empty: the tables become the grammar's attributes
ProcessRulesReturn ==
    /\ gPc = "processRules"
    /\ Len(rules) = 0
    /\ gPc' = "ready"
    /\ UNCHANGED <<roots, subparsers, thisRules, words, rules, lexicalRules,
                   unaryRules, binaryRules, generatedLexicalRules,
                   generatedNaryRules>>

-----------------------------------------------------------------------------
(* grammar.js: parse(s, roots), one action per step of the chart loops.    *)

emptyChart == [q \in {} |-> <<>>]

\* no call of parse has returned yet
NoCall == <<>>

\* the cell and the spans of the loop variables
spanJ == spanI + spanL
stringSpan == stringSpanOf(utterance, tokens, spanI, spanJ)
tokenSpan == tokenSpanOf(tokens, spanI, spanJ)
spanParses == lookup(chart, <<spanI, spanJ>>)

\* spanParses.push(...): the derivations are appended to the cell, their
\* constructors run, and an exception of a constructor leaves parse
pushParses(newParses, next) ==
    /\ chart' = [q \in DOMAIN chart \cup {<<spanI, spanJ>>} |->
                    IF q = <<spanI, spanJ>>
                    THEN spanParses \o newParses
                    ELSE chart[q]]
    /\ invoked' = invoked \cup callsOf(newParses)
    /\ pc' = IF anyThrows(callsOf(newParses)) THEN "threw" ELSE next

\* parse(s, roots): tokenize, start an empty chart, and return [] at once
\* when there are no tokens
parseCall(u, r) ==
    /\ utterance' = u
    /\ rootsArg' = r
    /\ tokens' = tokenize(u)
    /\ chart' = emptyChart
    /\ parses' = <<>>
    /\ unaryK' = 0
    /\ consulted' = {}
    /\ invoked' = {}
    /\ IF noTokens(tokenize(u))
       THEN /\ pc' = "done"
            /\ spanL' = 0
            /\ spanI' = 0
       ELSE /\ pc' = IF 1 <= Len(tokenize(u)) THEN "subparsers" ELSE "return"
            /\ spanL' = 1
            /\ spanI' = 0

\* parse is called on a constructed grammar
ParseCall ==
    /\ gPc = "ready"
    /\ pc = "idle"
    /\ \E u \in Utterances(words), r \in RootsArgs : parseCall(u, r)
    /\ UNCHANGED <<denotation, scored>>

\* chart[[i, j]] = [] and the parses of the sub-parsers
ApplySubparsers ==
    /\ pc = "subparsers"
    /\ pushParses(applySubparsers(subparsers, stringSpan), "lexical")
    /\ consulted' = consulted \cup
                    (IF Len(subparsers) > 0 THEN {"subparsers"} ELSE {})
    /\ UNCHANGED <<utterance, rootsArg, tokens, spanL, spanI, unaryK, parses,
                   denotation, scored>>

ApplyLexicalRules ==
    /\ pc = "lexical"
    /\ pushParses(applyLexicalRules(lexicalRules, tokenSpan, stringSpan), "binary")
    /\ consulted' = consulted \cup {"lexicalRules"}
    /\ UNCHANGED <<utterance, rootsArg, tokens, spanL, spanI, unaryK, parses,
                   denotation, scored>>

ApplyBinaryRules ==
    /\ pc = "binary"
    /\ pushParses(applyBinaryRules(chart, binaryRules, spanI, spanJ, stringSpan),
                  "unary")
    /\ consulted' = consulted \cup
                    (IF binaryPairs(chart, spanI, spanJ)
                     THEN {"binaryRules"} ELSE {})
    /\ unaryK' = 0
    /\ UNCHANGED <<utterance, rootsArg, tokens, spanL, spanI, parses,
                   denotation, scored>>

\* one iteration of for (k = 0; k < spanParses.length; k++), on the array
\* the iteration pushes to
ApplyUnaryRules ==
    /\ pc = "unary"
    /\ unaryK < Len(spanParses)
    /\ LET newParses == applyUnaryRules(unaryRules, spanParses, spanI, spanJ,
                                        unaryK, stringSpan)
       IN  /\ Len(spanParses) + Len(newParses) <= MaxCell
           /\ pushParses(newParses, "unary")
    /\ consulted' = consulted \cup {"unaryRules"}
    /\ unaryK' = unaryK + 1
    /\ UNCHANGED <<utterance, rootsArg, tokens, spanL, spanI, parses,
                   denotation, scored>>

\* the unary loop is over: the next start, the next length, or the end
NextSpan ==
    /\ pc = "unary"
    /\ ~(unaryK < Len(spanParses))
    /\ IF spanI + 1 <= Len(tokens) - spanL
       THEN /\ spanI' = spanI + 1
            /\ pc' = "subparsers"
            /\ UNCHANGED spanL
       ELSE IF spanL + 1 <= Len(tokens)
       THEN /\ spanL' = spanL + 1
            /\ spanI' = 0
            /\ pc' = "subparsers"
       ELSE /\ pc' = "return"
            /\ UNCHANGED <<spanL, spanI>>
    /\ UNCHANGED <<utterance, rootsArg, tokens, chart, unaryK, parses,
                   consulted, invoked, denotation, scored>>

\* return chart[[0, tokens.length]], filtered when the roots are not empty;
\* a cell that was never made is undefined, and .filter on it throws
ReturnParses ==
    /\ pc = "return"
    /\ LET rts == effectiveRoots(rootsArg, roots)
           key == <<0, Len(tokens)>>
       IN  IF key \in DOMAIN chart
           THEN /\ parses' = filterRoots(chart[key], rts)
                /\ pc' = "done"
           ELSE /\ pc' = IF Len(rts) > 0 THEN "threw" ELSE "undefined"
                /\ UNCHANGED parses
    /\ UNCHANGED <<utterance, rootsArg, tokens, chart, spanL, spanI, unaryK,
                   consulted, invoked, denotation, scored>>

-----------------------------------------------------------------------------
(* parse.js and ranker.js on the parses parse returned.                    *)

\* parses[n].computeDenotation() by the caller of parse
ComputeDenotation ==
    /\ pc = "done"
    /\ \E n \in 1..Len(parses) :
          /\ denotation' = [n |-> n, value |-> computeDenotation(chart, parses[n])]
          /\ invoked' = invoked \cup semanticsCalled(chart, parses[n])
    /\ pc' = "denoted"
    /\ UNCHANGED <<utterance, rootsArg, tokens, chart, spanL, spanI, unaryK,
                   parses, consulted, scored>>

\* parser.parse(s).map(p => [0, p.computeDenotation()])
constantScoresAndDenotations(ch, ps) ==
    [n \in 1..Len(ps) |-> <<0, computeDenotation(ch, ps[n])>>]

\* new ConstantRanker(grammar).scoresAndDenotations(s): parse is called
\* without roots; an exception of a semantics function reaches the caller
ScoresAndDenotations ==
    /\ pc = "done"
    /\ rootsArg = JsUndefined
    /\ LET out == constantScoresAndDenotations(chart, parses)
       IN  IF \E n \in 1..Len(out) : out[n][2] = Thrown
           THEN pc' = "scoringThrew" /\ UNCHANGED scored
           ELSE pc' = "scored" /\ scored' = out
    /\ UNCHANGED <<utterance, rootsArg, tokens, chart, spanL, spanI, unaryK,
                   parses, consulted, invoked, denotation>>

-----------------------------------------------------------------------------
(* Specifications. *)

\* the Rule constructor is not in use
NoRuleArgs == [tag |-> JsNull, lhs |-> JsNull, rhs |-> JsNull, semantics |-> JsNull]

SymInit ==
    /\ symPc = "start"
    /\ sym \in SymInputs
    /\ strip1 = <<>>
    /\ strip2 = <<>>
    /\ rulePc = "off"
    /\ ruleArgs = NoRuleArgs
    /\ ruleOut = Raise("")
    /\ gPc = "off"
    /\ roots = <<>>
    /\ subparsers = <<>>
    /\ thisRules = <<>>
    /\ words = {}
    /\ rules = <<>>
    /\ lexicalRules = emptyTable
    /\ unaryRules = emptyTable
    /\ binaryRules = emptyTable
    /\ generatedLexicalRules = {}
    /\ generatedNaryRules = {}
    /\ pc = "idle"
    /\ utterance = <<>>
    /\ rootsArg = JsUndefined
    /\ tokens = <<>>
    /\ chart = emptyChart
    /\ spanL = 0
    /\ spanI = 0
    /\ unaryK = 0
    /\ parses = <<>>
    /\ consulted = {}
    /\ invoked = {}
    /\ denotation = [n |-> 0, value |-> JsUndefined]
    /\ scored = <<>>
    /\ concatPc = "off"
    /\ newFeatures = <<>>
    /\ features = <<>>
    /\ rankPc = "off"
    /\ rankerClass = "none"
    /\ build = "none"
    /\ weights = <<>>
    /\ entryWeights = <<>>
    /\ fitFrame = <<>>
    /\ rankOut = <<>>
    /\ rankCalls = 0
    /\ fits = 0
    /\ earlier = NoCall
    /\ precPc = "off"
    /\ precParse = <<>>
    /\ precFeatures = <<>>
    /\ shufPc = "off"
    /\ shufArr = <<>>
    /\ shufCopy = <<>>
    /\ shufI = 0

SymNext ==
    \/ StripOnce /\ UNCHANGED <<ruleVars, grammarVars, parseVars, concatVars, rankVars, callVars, precVars, shuffleVars>>
    \/ StripTwice /\ UNCHANGED <<ruleVars, grammarVars, parseVars, concatVars, rankVars, callVars, precVars, shuffleVars>>

SpecSym == SymInit /\ [][SymNext]_vars

RuleInit ==
    /\ rulePc = "start"
    /\ ruleArgs \in [tag : RuleTags, lhs : RuleLhss, rhs : RuleRhss,
                     semantics : RuleSems]
    /\ ruleOut = Raise("")
    /\ symPc = "off"
    /\ sym = <<>>
    /\ strip1 = <<>>
    /\ strip2 = <<>>
    /\ gPc = "off"
    /\ roots = <<>>
    /\ subparsers = <<>>
    /\ thisRules = <<>>
    /\ words = {}
    /\ rules = <<>>
    /\ lexicalRules = emptyTable
    /\ unaryRules = emptyTable
    /\ binaryRules = emptyTable
    /\ generatedLexicalRules = {}
    /\ generatedNaryRules = {}
    /\ pc = "idle"
    /\ utterance = <<>>
    /\ rootsArg = JsUndefined
    /\ tokens = <<>>
    /\ chart = emptyChart
    /\ spanL = 0
    /\ spanI = 0
    /\ unaryK = 0
    /\ parses = <<>>
    /\ consulted = {}
    /\ invoked = {}
    /\ denotation = [n |-> 0, value |-> JsUndefined]
    /\ scored = <<>>
    /\ concatPc = "off"
    /\ newFeatures = <<>>
    /\ features = <<>>
    /\ rankPc = "off"
    /\ rankerClass = "none"
    /\ build = "none"
    /\ weights = <<>>
    /\ entryWeights = <<>>
    /\ fitFrame = <<>>
    /\ rankOut = <<>>
    /\ rankCalls = 0
    /\ fits = 0
    /\ earlier = NoCall
    /\ precPc = "off"
    /\ precParse = <<>>
    /\ precFeatures = <<>>
    /\ shufPc = "off"
    /\ shufArr = <<>>
    /\ shufCopy = <<>>
    /\ shufI = 0

RuleNext ==
    Construct /\ UNCHANGED <<symVars, grammarVars, parseVars, concatVars, rankVars, callVars, precVars, shuffleVars>>

SpecRule == RuleInit /\ [][RuleNext]_vars

\* a grammar is constructed, parse is called once, and the caller computes
\* a denotation or has the constant ranker score the parses
Init ==
    /\ \E g \in Grammars :
          /\ roots = g.roots
          /\ subparsers = g.subparsers
          /\ thisRules = g.rules
          /\ rules = g.rules
          /\ words = g.words
    /\ gPc = "processRules"
    /\ lexicalRules = emptyTable
    /\ unaryRules = emptyTable
    /\ binaryRules = emptyTable
    /\ generatedLexicalRules = {}
    /\ generatedNaryRules = {}
    /\ pc = "idle"
    /\ utterance = <<>>
    /\ rootsArg = JsUndefined
    /\ tokens = <<>>
    /\ chart = emptyChart
    /\ spanL = 0
    /\ spanI = 0
    /\ unaryK = 0
    /\ parses = <<>>
    /\ consulted = {}
    /\ invoked = {}
    /\ denotation = [n |-> 0, value |-> JsUndefined]
    /\ scored = <<>>
    /\ symPc = "off"
    /\ sym = <<>>
    /\ strip1 = <<>>
    /\ strip2 = <<>>
    /\ rulePc = "off"
    /\ ruleArgs = NoRuleArgs
    /\ ruleOut = Raise("")
    /\ concatPc = "off"
    /\ newFeatures = <<>>
    /\ features = <<>>
    /\ rankPc = "off"
    /\ rankerClass = "none"
    /\ build = "none"
    /\ weights = <<>>
    /\ entryWeights = <<>>
    /\ fitFrame = <<>>
    /\ rankOut = <<>>
    /\ rankCalls = 0
    /\ fits = 0
    /\ earlier = NoCall
    /\ precPc = "off"
    /\ precParse = <<>>
    /\ precFeatures = <<>>
    /\ shufPc = "off"
    /\ shufArr = <<>>
    /\ shufCopy = <<>>
    /\ shufI = 0

Next ==
    \/ ProcessOptionalRule /\ UNCHANGED <<symVars, ruleVars, parseVars, concatVars, rankVars, callVars, precVars, shuffleVars>>
    \/ ProcessMixedRule /\ UNCHANGED <<symVars, ruleVars, parseVars, concatVars, rankVars, callVars, precVars, shuffleVars>>
    \/ ProcessNaryRule /\ UNCHANGED <<symVars, ruleVars, parseVars, concatVars, rankVars, callVars, precVars, shuffleVars>>
    \/ InstallLexicalRule /\ UNCHANGED <<symVars, ruleVars, parseVars, concatVars, rankVars, callVars, precVars, shuffleVars>>
    \/ InstallUnaryRule /\ UNCHANGED <<symVars, ruleVars, parseVars, concatVars, rankVars, callVars, precVars, shuffleVars>>
    \/ InstallBinaryRule /\ UNCHANGED <<symVars, ruleVars, parseVars, concatVars, rankVars, callVars, precVars, shuffleVars>>
    \/ ProcessRulesReturn /\ UNCHANGED <<symVars, ruleVars, parseVars, concatVars, rankVars, callVars, precVars, shuffleVars>>
    \/ ParseCall /\ UNCHANGED <<symVars, ruleVars, grammarVars, concatVars, rankVars, callVars, precVars, shuffleVars>>
    \/ ApplySubparsers /\ UNCHANGED <<symVars, ruleVars, grammarVars, concatVars, rankVars, callVars, precVars, shuffleVars>>
    \/ ApplyLexicalRules /\ UNCHANGED <<symVars, ruleVars, grammarVars, concatVars, rankVars, callVars, precVars, shuffleVars>>
    \/ ApplyBinaryRules /\ UNCHANGED <<symVars, ruleVars, grammarVars, concatVars, rankVars, callVars, precVars, shuffleVars>>
    \/ ApplyUnaryRules /\ UNCHANGED <<symVars, ruleVars, grammarVars, concatVars, rankVars, callVars, precVars, shuffleVars>>
    \/ NextSpan /\ UNCHANGED <<symVars, ruleVars, grammarVars, concatVars, rankVars, callVars, precVars, shuffleVars>>
    \/ ReturnParses /\ UNCHANGED <<symVars, ruleVars, grammarVars, concatVars, rankVars, callVars, precVars, shuffleVars>>
    \/ ComputeDenotation /\ UNCHANGED <<symVars, ruleVars, grammarVars, concatVars, rankVars, callVars, precVars, shuffleVars>>
    \/ ScoresAndDenotations /\ UNCHANGED <<symVars, ruleVars, grammarVars, concatVars, rankVars, callVars, precVars, shuffleVars>>

Spec == Init /\ [][Next]_vars

-----------------------------------------------------------------------------
(* Numbers of LinearRanker.  fit computes with learningRate = 1e-2,        *)
(* regularization = 1e-2, alpha = 1, tol = 1e-2, integer feature counts    *)
(* and the factor 1 - learningRate * regularization = 1 - 1e-4.  Every     *)
(* weight, score and loss is therefore d0 + d1 e + d2 e^2 + ... hundredths *)
(* with integers dj and e = 1e-4, and is modelled, exactly, as the         *)
(* sequence <<d0, d1, ...>> without trailing zeros.  Arithmetic is that of *)
(* the reals: the rounding of doubles is not modelled.                     *)

RECURSIVE trim(_)
\* the sequence without its trailing zeros
trim(a) ==
    IF Len(a) > 0 /\ a[Len(a)] = 0 THEN trim(SubSeq(a, 1, Len(a) - 1)) ELSE a

\* the coefficient of e^(j-1), 0 outside the sequence
coeff(a, j) == IF j >= 1 /\ j <= Len(a) THEN a[j] ELSE 0

\* the integer n, in hundredths
hundredths(n) == trim(<<n>>)

plus(a, b) ==
    trim([j \in 1..(IF Len(a) > Len(b) THEN Len(a) ELSE Len(b)) |->
             coeff(a, j) + coeff(b, j)])

\* n * a for an integer n
times(n, a) == trim([j \in 1..Len(a) |-> n * a[j]])

minus(a, b) == plus(a, times(-1, b))

RECURSIVE decay(_, _)
\* a * (1 - e) ** k
decay(a, k) ==
    IF k <= 0 \/ Len(a) = 0 THEN a
    ELSE decay(trim([j \in 1..(Len(a) + 1) |-> coeff(a, j) - coeff(a, j - 1)]),
               k - 1)

\* the sign of a: that of its first coefficient that is not 0, which
\* outweighs the rest while every coefficient is below 5000 in size
sign(a) ==
    IF Len(a) = 0 THEN 0
    ELSE LET j == CHOOSE m \in 1..Len(a) :
                      a[m] # 0 /\ \A n \in 1..(m - 1) : a[n] = 0
         IN  IF a[j] > 0 THEN 1 ELSE -1

lessThan(a, b) == sign(minus(a, b)) < 0

\* a loss: a finite number, or Infinity
Finite(d) == [t |-> "Finite", d |-> d]
Infinity == [t |-> "Infinity"]

\* x || Infinity: undefined and 0 are falsy
orInfinity(x) ==
    IF x.t = "Undefined" THEN Infinity
    ELSE IF x.t = "Finite" /\ x.d = <<>> THEN Infinity
    ELSE x

\* Math.abs(a - b) <= c for a finite a, where b may be Infinity
absDifferenceAtMost(a, b, c) ==
    IF b.t = "Infinity" THEN FALSE
    ELSE LET d == minus(a.d, b.d)
         IN  ~lessThan(c, IF sign(d) < 0 THEN times(-1, d) ELSE d)

-----------------------------------------------------------------------------
(* utils: equal, range, shuffle *)

RECURSIVE equal(_, _)
\* equal(left, right): arrays element by element, anything else by ===
\* (a denotation is a value of the semantics functions, compared as such)
equal(left, right) ==
    IF left.t = "Array" /\ right.t = "Array"
    THEN /\ Len(left.a) = Len(right.a)
         /\ \A n \in 1..Len(left.a) : equal(left.a[n], right.a[n])
    ELSE left.t # "NaN" /\ left = right

\* range(len): 0 through len - 1
range(len) == [n \in 1..len |-> n - 1]

\* a variant that assigns arrCopy[i] = y and leaves arrCopy[j] as it is
swappedHalf(arrCopy, i, j) ==
    [arrCopy EXCEPT ![i + 1] = arrCopy[j + 1]]

\* arrCopy with the elements at the 0-based indices i and j exchanged
swapped(arrCopy, i, j) ==
    [arrCopy EXCEPT ![i + 1] = arrCopy[j + 1], ![j + 1] = arrCopy[i + 1]]

RECURSIVE shuffleFrom(_, _)
\* the Fisher-Yates loop from index i down: j = floor(Math.random() * (i + 1))
\* is any of 0..i; the arrays the loop can end with
shuffleFrom(arrCopy, i) ==
    IF i <= 0 THEN {arrCopy}
    ELSE UNION {shuffleFrom(swapped(arrCopy, i, j), i - 1) : j \in 0..i}

\* the arrays shuffle(arr) can return
shuffle(arr) == shuffleFrom(arr, Len(arr) - 1)

-----------------------------------------------------------------------------
(* featurize.js: ParseCountsFeaturizer *)

RECURSIVE tagsOf(_, _)
\* the tags addParseCounts meets: the parse's own, then its children's
tagsOf(ch, parse) ==
    <<parse.tag>> \o
    flatten([c \in 1..Len(parse.children) |->
                tagsOf(ch, deref(ch, parse.children[c]))])

\* ParseCountsFeaturizer.transform: each tag with the number of its nodes
parseCounts(ch, parse) ==
    LET met == tagsOf(ch, parse)
    IN  [tag \in {met[p] : p \in 1..Len(met)} |->
            Cardinality({p \in 1..Len(met) : met[p] = tag})]

\* features[feature] || 0
featureOr0(feats, feature) ==
    IF feature \in DOMAIN feats THEN feats[feature] ELSE 0

-----------------------------------------------------------------------------
(* ranker.js: LinearRanker *)

\* the hyperparameters of LinearRanker.fit; alpha and tol in hundredths
maxEpochs == 100
alpha == hundredths(100)
tol == hundredths(1)

\* this.weights[feature] || 0
weightOr0(w, feature) ==
    IF feature \in DOMAIN w THEN w[feature] ELSE <<>>

RECURSIVE scoreOver(_, _, _)
\* the loop of getScore over the features in `keys`
scoreOver(w, feats, keys) ==
    IF keys = {} THEN <<>>
    ELSE LET feature == CHOOSE k \in keys : TRUE
         IN  plus(times(feats[feature], weightOr0(w, feature)),
                  scoreOver(w, feats, keys \ {feature}))

\* getScore(parse), given the parse's features
getScore(w, feats) == scoreOver(w, feats, DOMAIN feats)

\* [getScore(p), equal(p.computeDenotation(), denotation), p] for every
\* parse; p is kept as its index in the array parse returned
scoredParses(w, ch, ps, label) ==
    [n \in 1..Len(ps) |->
        [score |-> getScore(w, parseCounts(ch, ps[n])),
         correct |-> equal(computeDenotation(ch, ps[n]), label),
         p |-> n]]

RECURSIVE reduceFrom(_, _, _)
\* .reduce((acc, v) => v[0] > acc[0] ? v : acc) from element n on
reduceFrom(acc, tuples, n) ==
    IF n > Len(tuples) THEN acc
    ELSE reduceFrom(IF lessThan(acc.score, tuples[n].score) THEN tuples[n] ELSE acc,
                    tuples, n + 1)

\* the reduce without an initial value, on a non-empty array
highestScored(tuples) == reduceFrom(tuples[1], tuples, 2)

\* the parses that are not correct and score within alpha of the correct one
topScoredParses(tuples, correctScore) ==
    SelectSeq(tuples,
              LAMBDA v : ~v.correct /\ lessThan(minus(correctScore, v.score), alpha))

RECURSIVE lossFrom(_, _, _)
\* the sum of Math.max(score + alpha - correctScore, 0) from element n on
lossFrom(top, correctScore, n) ==
    IF n > Len(top) THEN <<>>
    ELSE LET margin == minus(plus(top[n].score, alpha), correctScore)
         IN  plus(IF sign(margin) > 0 THEN margin ELSE <<>>,
                  lossFrom(top, correctScore, n + 1))

RECURSIVE gradFrom(_, _, _, _, _, _)
\* topScoredParses.forEach(...) from element n on: grad[feature] gains
\* topFeatures[feature] - correctFeatures[feature] for every feature of
\* either
gradFrom(grad, top, ch, ps, correctParse, n) ==
    IF n > Len(top) THEN grad
    ELSE LET topFeatures == parseCounts(ch, ps[top[n].p])
             correctFeatures == parseCounts(ch, ps[correctParse])
             keys == DOMAIN topFeatures \cup DOMAIN correctFeatures
         IN  gradFrom([feature \in DOMAIN grad \cup keys |->
                          featureOr0(grad, feature)
                          + (IF feature \in keys
                             THEN featureOr0(topFeatures, feature)
                                  - featureOr0(correctFeatures, feature)
                             ELSE 0)],
                      top, ch, ps, correctParse, n + 1)

\* updateTimes[feature] || 0
updateTimeOr0(times0, feature) ==
    IF feature \in DOMAIN times0 THEN times0[feature] ELSE 0

\* the loop over grad: the weight decays for the samples since its last
\* update, then takes the step learningRate * grad[feature]
stepWeights(w, grad, updateTimes, i) ==
    [feature \in DOMAIN w \cup DOMAIN grad |->
        IF feature \in DOMAIN grad
        THEN minus(decay(weightOr0(w, feature),
                         i - updateTimeOr0(updateTimes, feature)),
                   hundredths(grad[feature]))
        ELSE w[feature]]

\* a variant that records the index of the sample after the update
stepTimesOfNextSample(updateTimes, grad, i) ==
    [feature \in DOMAIN updateTimes \cup DOMAIN grad |->
        IF feature \in DOMAIN grad THEN i + 1 ELSE updateTimes[feature]]

\* updateTimes[feature] = i for every feature of grad
stepTimes(updateTimes, grad, i) ==
    [feature \in DOMAIN updateTimes \cup DOMAIN grad |->
        IF feature \in DOMAIN grad THEN i ELSE updateTimes[feature]]

\* the loop over this.weights at the end of an epoch
flushWeights(w, updateTimes, i) ==
    [feature \in DOMAIN w |->
        decay(w[feature], i - updateTimeOr0(updateTimes, feature))]

\* for each feature, the sum of the exponents i - (updateTimes[feature] || 0)
\* of the regularization factors its weight was multiplied by in the epoch:
\* after the loop over grad of sample i
stepExponents(exponents, grad, updateTimes, i) ==
    [feature \in DOMAIN exponents \cup DOMAIN grad |->
        (IF feature \in DOMAIN exponents THEN exponents[feature] ELSE 0)
        + (IF feature \in DOMAIN grad
           THEN i - updateTimeOr0(updateTimes, feature)
           ELSE 0)]

\* and after the loop over this.weights at the end of the epoch
flushExponents(exponents, w, updateTimes, i) ==
    [feature \in DOMAIN exponents \cup DOMAIN w |->
        (IF feature \in DOMAIN exponents THEN exponents[feature] ELSE 0)
        + (IF feature \in DOMAIN w
           THEN i - updateTimeOr0(updateTimes, feature)
           ELSE 0)]

RECURSIVE insertSorted(_, _)
\* v put into a descending array after the elements that do not score less
insertSorted(sorted, v) ==
    IF Len(sorted) = 0 THEN <<v>>
    ELSE IF lessThan(Head(sorted).score, v.score) THEN <<v>> \o sorted
    ELSE <<Head(sorted)>> \o insertSorted(Tail(sorted), v)

RECURSIVE sortDescending(_)
\* .sort((a, b) => b[0] - a[0]): descending, equal scores keep their order
sortDescending(tuples) ==
    IF Len(tuples) = 0 THEN <<>>
    ELSE insertSorted(sortDescending(SubSeq(tuples, 1, Len(tuples) - 1)),
                      tuples[Len(tuples)])

-----------------------------------------------------------------------------
(* ranker.js: SoftmaxRanker.  Math.exp and Math.log have an exact value in *)
(* the model at exp(0) = 1, log(1) = 0 and log(0) = -Infinity only.  A     *)
(* weight is Zero or SomeReal, a real number that the model does not       *)
(* follow (it may be 0 too); a probability is a fraction while every logit *)
(* is exactly 0 and SomeReal otherwise; a comparison with SomeReal can go  *)
(* either way, and the actions take both.                                  *)

Zero == [t |-> "Zero"]
SomeReal == [t |-> "Real"]
Fraction(n, d) == [t |-> "Fraction", n |-> n, d |-> d]

\* getExpScore(parse) is exactly Math.exp(0): no feature of the parse has
\* a weight other than 0
expScoreIsOne(w, feats) ==
    \A feature \in DOMAIN feats :
        feats[feature] = 0 \/ feature \notin DOMAIN w \/ w[feature] = Zero

\* every parse has the logit 0, so that every probability is 1 / length
uniform(w, ch, ps) ==
    \A n \in 1..Len(ps) : expScoreIsOne(w, parseCounts(ch, ps[n]))

\* the permutations of 1..n
Orders(n) ==
    {f \in [1..n -> 1..n] : \A a, b \in 1..n : a # b => f[a] # f[b]}

\* SoftmaxRanker.scoresAndParses: the arrays it can return
softmaxScoresAndParses(w, ch, ps) ==
    IF uniform(w, ch, ps)
    THEN {[n \in 1..Len(ps) |-> [score |-> Fraction(1, Len(ps)), p |-> n]]}
    ELSE {[n \in 1..Len(ps) |-> [score |-> SomeReal, p |-> order[n]]] :
             order \in Orders(Len(ps))}

\* the indices of the parses whose denotation equals the label
correctParses(ch, ps, label) ==
    {n \in 1..Len(ps) : equal(computeDenotation(ch, ps[n]), label)}

RECURSIVE featureSum(_, _, _, _)
\* the sum of features[feature] over the parses with an index in `among`
featureSum(ch, ps, among, feature) ==
    IF among = {} THEN 0
    ELSE LET n == CHOOSE m \in among : TRUE
         IN  featureOr0(parseCounts(ch, ps[n]), feature)
             + featureSum(ch, ps, among \ {n}, feature)

\* - Math.log(denotationProb) for one sample
softmaxLoss(w, ch, ps, label) ==
    LET correct == correctParses(ch, ps, label)
    IN  IF correct = {} THEN Infinity
        ELSE IF uniform(w, ch, ps) /\ Cardinality(correct) = Len(ps)
        THEN Finite(<<>>)
        ELSE SomeReal

\* curLoss += loss
softmaxPlus(curLoss, loss) ==
    IF curLoss.t = "Infinity" \/ loss.t = "Infinity" THEN Infinity
    ELSE IF curLoss.t = "Real" \/ loss.t = "Real" THEN SomeReal
    ELSE Finite(<<>>)

\* the features of grad: those of the correct parses
softmaxGradKeys(ch, ps, label) ==
    UNION {DOMAIN parseCounts(ch, ps[n]) : n \in correctParses(ch, ps, label)}

\* grad[feature] is exactly 0: the probabilities are uniform and the
\* correct parses have the feature as often, on average, as all parses
softmaxGradIsZero(w, ch, ps, label, feature) ==
    /\ uniform(w, ch, ps)
    /\ Len(ps) * featureSum(ch, ps, correctParses(ch, ps, label), feature)
          = Cardinality(correctParses(ch, ps, label))
              * featureSum(ch, ps, 1..Len(ps), feature)

\* the loop over grad: a weight of 0 with a gradient of 0 stays 0
softmaxStepWeights(w, ch, ps, label) ==
    [feature \in DOMAIN w \cup softmaxGradKeys(ch, ps, label) |->
        IF feature \in softmaxGradKeys(ch, ps, label)
        THEN IF (feature \notin DOMAIN w \/ w[feature] = Zero)
                /\ softmaxGradIsZero(w, ch, ps, label, feature)
             THEN Zero
             ELSE SomeReal
        ELSE w[feature]]

\* curLoss || Infinity: the values oldLoss can take
softmaxOrInfinity(curLoss) ==
    IF curLoss.t = "Undefined" THEN {Infinity}
    ELSE IF curLoss.t = "Finite" THEN {Infinity}
    ELSE IF curLoss.t = "Real" THEN {SomeReal, Infinity}
    ELSE {Infinity}

\* Math.abs(curLoss - oldLoss) <= tol: the values the test can take
softmaxWithinTol(curLoss, oldLoss) ==
    IF curLoss.t = "Infinity" \/ oldLoss.t = "Infinity" THEN {FALSE}
    ELSE {TRUE, FALSE}

-----------------------------------------------------------------------------
(* ranker.js: a LinearRanker or a SoftmaxRanker built on a Grammar and a   *)
(* ParseCountsFeaturizer, and the calls of its methods.  A method runs to  *)
(* its end before the next one is called; parse, called by a method, takes *)
(* the steps of the parser above.                                          *)

\* $N -> a twice with different semantics, $N -> b, $R -> $N, and
\* $R -> ?$N $N $N b, which is optional, mixed and n-ary
RankGrammar ==
    [roots |-> <<symR>>, subparsers |-> <<>>,
     rules |-> << authorRule(<<"x">>, symN, <<"a">>, AuthorSem("one")),
                  authorRule(<<"y">>, symN, <<"a">>, AuthorSem("two")),
                  authorRule(<<"z">>, symN, <<"b">>, AuthorSem("one")),
                  authorRule(<<"r">>, symR, symN, AuthorSem("root")),
                  authorRule(<<"o">>, symR,
                             <<"?">> \o symN \o sp \o symN \o sp \o symN
                                 \o sp \o <<"b">>,
                             AuthorSem("long")) >>,
     words |-> {<<"a">>, <<"b">>, <<"c">>}]

\* utterances with two parses, with one parse and with none
RankUtterances == {<<"a">>, <<"b">>, <<"c">>}

\* the denotations of the parses of "a"
RankLabels ==
    {Value("root", <<Value("one", <<>>)>>), Value("root", <<Value("two", <<>>)>>)}

\* the arguments of fit: arrays of up to MaxSamples elements each
TrainingSets ==
    {[utterances |-> us, denotations |-> ds] :
        us \in SeqsUpTo(RankUtterances, MaxSamples),
        ds \in SeqsUpTo(RankLabels, MaxSamples)}

\* the methods of a ranker that score, and parse itself
ScoringOps ==
    {"parse", "scoresAndParses", "scoresAndDenotations", "topParse",
     "topDenotation"}

\* the locals of fit before fit is called
NoFit ==
    [utterances |-> <<>>, denotations |-> <<>>, epoch |-> 0, i |-> 0,
     epochOrder |-> <<>>, updateTimes |-> <<>>, curLoss |-> JsUndefined,
     oldLoss |-> JsUndefined, exponents |-> <<>>]

\* what a method did: nothing yet, still running, returned, or raised
NoOut == [op |-> "", status |-> "none", error |-> "", value |-> <<>>]
Running(op) == [op |-> op, status |-> "running", error |-> "", value |-> <<>>]
Returned(op, value) ==
    [op |-> op, status |-> "returned", error |-> "", value |-> value]
Raised(op, error) ==
    [op |-> op, status |-> "raised", error |-> error, value |-> <<>>]

\* a variant of the assertion that accepts any lengths
lengthsMatchAlways(us, ds) == TRUE

\* utterances.length === denotations.length
lengthsMatch(us, ds) == Len(us) = Len(ds)

\* no method of the ranker is running
rankIdle == gPc = "ready" /\ rankPc = "idle" /\ rankCalls < MaxCalls

\* parse has returned or thrown
parseEnded == pc \in {"done", "threw", "undefined"}

\* some p.computeDenotation() throws
denotationThrows(ch, ps) ==
    \E n \in 1..Len(ps) : computeDenotation(ch, ps[n]) = Thrown

\* fit(utterances, denotations) up to the first epoch: the assertion
FitCall ==
    /\ rankIdle
    /\ \E set \in TrainingSets :
          /\ fitFrame' = [NoFit EXCEPT !.utterances = set.utterances,
                                       !.denotations = set.denotations]
          /\ IF lengthsMatch(set.utterances, set.denotations)
             THEN rankPc' = "epoch" /\ rankOut' = Running("fit")
             ELSE rankPc' = "idle" /\ rankOut' = Raised("fit", "AssertionError")
    /\ entryWeights' = weights
    /\ rankCalls' = rankCalls + 1
    /\ fits' = fits + 1
    /\ UNCHANGED <<rankerClass, build, weights>>

\* the head of the epoch loop, through `const updateTimes = {}`: natively
\* curLoss is read before its `let` has run, which throws; transpiled,
\* curLoss is a `var` that holds the loss of the epoch before
EpochStart ==
    /\ rankPc = "epoch"
    /\ fitFrame.epoch < MaxEpochs
    /\ IF fitFrame.epoch >= maxEpochs
       THEN /\ rankPc' = "idle"
            /\ rankOut' = Returned("fit", <<>>)
            /\ UNCHANGED fitFrame
       ELSE IF build = "native"
       THEN /\ rankPc' = "idle"
            /\ rankOut' = Raised("fit", "ReferenceError")
            /\ UNCHANGED fitFrame
       ELSE /\ \E order \in shuffle(range(Len(fitFrame.utterances))),
                  old \in (IF rankerClass = "linear"
                           THEN {orInfinity(fitFrame.curLoss)}
                           ELSE softmaxOrInfinity(fitFrame.curLoss)) :
                  fitFrame' = [fitFrame EXCEPT !.oldLoss = old,
                                               !.curLoss = Finite(<<>>),
                                               !.epochOrder = order,
                                               !.updateTimes = <<>>,
                                               !.exponents = <<>>,
                                               !.i = 0]
            /\ rankPc' = "sample"
            /\ UNCHANGED rankOut
    /\ UNCHANGED <<rankerClass, build, weights, entryWeights, rankCalls, fits>>

\* this.parser.parse(utterances[epochOrder[i]])
SampleParse ==
    /\ rankPc = "sample"
    /\ fitFrame.i < Len(fitFrame.utterances)
    /\ parseCall(fitFrame.utterances[fitFrame.epochOrder[fitFrame.i + 1] + 1],
                 JsUndefined)
    /\ rankPc' = "parsing"
    /\ UNCHANGED <<denotation, scored>>
    /\ UNCHANGED <<rankerClass, build, weights, entryWeights, fitFrame, rankOut,
                   rankCalls, fits>>

\* the rest of the sample loop's body in LinearRanker.fit; the reduce
\* without an initial value throws on an empty array
linearSample(label) ==
    LET tuples == scoredParses(weights, chart, parses, label)
        right == SelectSeq(tuples, LAMBDA v : v.correct)
    IN  IF Len(right) = 0
        THEN /\ rankPc' = "idle"
             /\ rankOut' = Raised("fit", "TypeError")
             /\ UNCHANGED <<weights, fitFrame>>
        ELSE LET best == highestScored(right)
                 top == topScoredParses(tuples, best.score)
                 grad == gradFrom(<<>>, top, chart, parses, best.p, 1)
             IN  /\ weights' = stepWeights(weights, grad,
                                           fitFrame.updateTimes, fitFrame.i)
                 /\ fitFrame' =
                       [fitFrame EXCEPT
                           !.curLoss = Finite(plus(fitFrame.curLoss.d,
                                                   lossFrom(top, best.score, 1))),
                           !.updateTimes = stepTimes(fitFrame.updateTimes,
                                                     grad, fitFrame.i),
                           !.exponents = stepExponents(fitFrame.exponents, grad,
                                                       fitFrame.updateTimes,
                                                       fitFrame.i),
                           !.i = fitFrame.i + 1]
                 /\ rankPc' = "sample"
                 /\ UNCHANGED rankOut

\* the rest of the sample loop's body in SoftmaxRanker.fit
softmaxSample(label) ==
    /\ weights' = softmaxStepWeights(weights, chart, parses, label)
    /\ fitFrame' =
          [fitFrame EXCEPT
              !.curLoss = softmaxPlus(fitFrame.curLoss,
                                      softmaxLoss(weights, chart, parses, label)),
              !.updateTimes = stepTimes(fitFrame.updateTimes,
                                        [f \in softmaxGradKeys(chart, parses, label)
                                            |-> 0],
                                        fitFrame.i),
              !.exponents = stepExponents(fitFrame.exponents,
                                          [f \in softmaxGradKeys(chart, parses, label)
                                              |-> 0],
                                          fitFrame.updateTimes, fitFrame.i),
              !.i = fitFrame.i + 1]
    /\ rankPc' = "sample"
    /\ UNCHANGED rankOut

\* the sample loop's body after parse has returned: an exception of parse
\* or of a semantics function leaves fit
SampleUpdate ==
    /\ rankPc = "parsing"
    /\ parseEnded
    /\ IF pc # "done"
       THEN /\ rankPc' = "idle"
            /\ rankOut' = Raised("fit", "TypeError")
            /\ UNCHANGED <<weights, fitFrame>>
       ELSE IF denotationThrows(chart, parses)
       THEN /\ rankPc' = "idle"
            /\ rankOut' = Raised("fit", "Thrown")
            /\ UNCHANGED <<weights, fitFrame>>
       ELSE LET label == fitFrame.denotations[
                             fitFrame.epochOrder[fitFrame.i + 1] + 1]
            IN  IF rankerClass = "linear"
                THEN linearSample(label)
                ELSE softmaxSample(label)
    /\ UNCHANGED <<rankerClass, build, entryWeights, rankCalls, fits>>

\* the end of an epoch: the regularization not yet applied, and the test
\* of the tolerance
EpochEnd ==
    /\ rankPc = "sample"
    /\ fitFrame.i >= Len(fitFrame.utterances)
    /\ weights' = (IF rankerClass = "linear"
                   THEN flushWeights(weights, fitFrame.updateTimes, fitFrame.i)
                   ELSE weights)
    /\ \E stop \in (IF rankerClass = "linear"
                    THEN {absDifferenceAtMost(fitFrame.curLoss,
                                              fitFrame.oldLoss, tol)}
                    ELSE softmaxWithinTol(fitFrame.curLoss, fitFrame.oldLoss)) :
          IF stop
          THEN /\ rankPc' = "idle"
               /\ rankOut' = Returned("fit", <<>>)
               /\ fitFrame' =
                     [fitFrame EXCEPT
                         !.exponents = flushExponents(fitFrame.exponents, weights,
                                                      fitFrame.updateTimes,
                                                      fitFrame.i)]
          ELSE /\ rankPc' = "epoch"
               /\ fitFrame' =
                     [fitFrame EXCEPT
                         !.epoch = fitFrame.epoch + 1,
                         !.exponents = flushExponents(fitFrame.exponents, weights,
                                                      fitFrame.updateTimes,
                                                      fitFrame.i)]
               /\ UNCHANGED rankOut
    /\ UNCHANGED <<rankerClass, build, entryWeights, rankCalls, fits>>

\* LinearRanker.scoresAndParses: [getScore(p), p] for every parse, sorted
linearScoresAndParses(w, ch, ps) ==
    sortDescending([n \in 1..Len(ps) |->
                       [score |-> getScore(w, parseCounts(ch, ps[n])), p |-> n]])

\* this.scoresAndParses(s) after parse has returned ps: the arrays it can
\* return
scoresAndParses(w, ch, ps) ==
    IF rankerClass = "linear"
    THEN {linearScoresAndParses(w, ch, ps)}
    ELSE softmaxScoresAndParses(w, ch, ps)

\* .map(([score, p]) => [score, p.computeDenotation()])
scoredParseDenotations(ch, ps, ranked) ==
    [n \in 1..Len(ranked) |->
        [score |-> ranked[n].score,
         denotation |-> computeDenotation(ch, ps[ranked[n].p])]]

RECURSIVE groupKeys(_, _)
\* the denotations of the first n pairs, each once, in the order met
groupKeys(pairs, n) ==
    IF n = 0 THEN <<>>
    ELSE LET before == groupKeys(pairs, n - 1)
         IN  IF \E k \in 1..Len(before) : before[k] = pairs[n].denotation
             THEN before
             ELSE Append(before, pairs[n].denotation)

\* groupBy(([score, denotation]) => denotation, pairs): one group for each
\* denotation, with the pairs that have it
groupBy(pairs) ==
    LET keys == groupKeys(pairs, Len(pairs))
    IN  [k \in 1..Len(keys) |->
            [key |-> keys[k],
             members |-> SelectSeq(pairs, LAMBDA v : v.denotation = keys[k])]]

RECURSIVE maxScoreFrom(_, _)
\* .reduce((acc, [score, denotation]) => Math.max(acc, score), -Infinity)
\* from element n on; a group has a member, so that -Infinity is not
\* returned
maxScoreFrom(members, n) ==
    IF n >= Len(members) THEN members[n].score
    ELSE LET rest == maxScoreFrom(members, n + 1)
         IN  IF lessThan(members[n].score, rest) THEN rest ELSE members[n].score

\* LinearRanker.scoresAndDenotations, given this.scoresAndParses(s)
linearScoresAndDenotations(ch, ps, ranked) ==
    LET groups == groupBy(scoredParseDenotations(ch, ps, ranked))
    IN  sortDescending([k \in 1..Len(groups) |->
                           [score |-> maxScoreFrom(groups[k].members, 1),
                            denotation |-> groups[k].key]])

RECURSIVE fractionInsertSorted(_, _)
\* insertSorted for scores that are fractions of one denominator
fractionInsertSorted(sorted, v) ==
    IF Len(sorted) = 0 THEN <<v>>
    ELSE IF Head(sorted).score.n < v.score.n THEN <<v>> \o sorted
    ELSE <<Head(sorted)>> \o fractionInsertSorted(Tail(sorted), v)

RECURSIVE fractionSortDescending(_)
\* sortDescending for scores that are fractions of one denominator
fractionSortDescending(tuples) ==
    IF Len(tuples) = 0 THEN <<>>
    ELSE fractionInsertSorted(
             fractionSortDescending(SubSeq(tuples, 1, Len(tuples) - 1)),
             tuples[Len(tuples)])

\* SoftmaxRanker.scoresAndDenotations, given this.scoresAndParses(s): the
\* score of a denotation is the sum of the scores of its parses
softmaxScoresAndDenotations(w, ch, ps, ranked) ==
    LET groups == groupBy(scoredParseDenotations(ch, ps, ranked))
    IN  IF uniform(w, ch, ps)
        THEN {fractionSortDescending(
                  [k \in 1..Len(groups) |->
                      [score |-> Fraction(Len(groups[k].members), Len(ps)),
                       denotation |-> groups[k].key]])}
        ELSE {[k \in 1..Len(groups) |->
                  [score |-> SomeReal, denotation |-> groups[order[k]].key]] :
                 order \in Orders(Len(groups))}

\* this.scoresAndDenotations(s) after parse has returned ps: the arrays it
\* can return
scoresAndDenotations(w, ch, ps) ==
    UNION {IF rankerClass = "linear"
           THEN {linearScoresAndDenotations(ch, ps, ranked)}
           ELSE softmaxScoresAndDenotations(w, ch, ps, ranked) :
              ranked \in scoresAndParses(w, ch, ps)}

\* what the method op can do once parse has ended: topParse and
\* topDenotation read [0][1] of the array, which throws on an empty array
rankOutcomes(op, w, ch, ps) ==
    IF pc = "undefined" /\ op = "parse" THEN {Returned(op, JsUndefined)}
    ELSE IF pc # "done" THEN {Raised(op, "TypeError")}
    ELSE IF op = "parse" THEN {Returned(op, [n \in 1..Len(ps) |-> n])}
    ELSE IF op = "scoresAndParses"
    THEN {Returned(op, ranked) : ranked \in scoresAndParses(w, ch, ps)}
    ELSE IF op = "topParse"
    THEN {IF Len(ranked) = 0 THEN Raised(op, "TypeError") ELSE Returned(op, ranked[1].p) :
             ranked \in scoresAndParses(w, ch, ps)}
    ELSE IF denotationThrows(ch, ps) THEN {Raised(op, "Thrown")}
    ELSE IF op = "scoresAndDenotations"
    THEN {Returned(op, sd) : sd \in scoresAndDenotations(w, ch, ps)}
    ELSE {IF Len(sd) = 0 THEN Raised(op, "TypeError")
          ELSE Returned(op, sd[1].denotation) :
             sd \in scoresAndDenotations(w, ch, ps)}

\* parse or a scoring method is called on s: each begins with parse(s)
ScoreCall ==
    /\ rankIdle
    /\ \E op \in ScoringOps, s \in RankUtterances :
          /\ parseCall(s, JsUndefined)
          /\ rankOut' = Running(op)
    /\ rankPc' = "scoring"
    /\ entryWeights' = weights
    /\ rankCalls' = rankCalls + 1
    /\ UNCHANGED <<denotation, scored>>
    /\ UNCHANGED <<rankerClass, build, weights, fitFrame, fits>>

\* a variant of the return in which scoring stores a weight of 0 for every
\* feature it met that had none
ScoreReturnStoringWeights ==
    /\ rankPc = "scoring"
    /\ parseEnded
    /\ rankOut' \in rankOutcomes(rankOut.op, weights, chart, parses)
    /\ rankPc' = "idle"
    /\ weights' =
          [feature \in DOMAIN weights
                       \cup UNION {DOMAIN parseCounts(chart, parses[n]) :
                                      n \in 1..Len(parses)} |->
              IF feature \in DOMAIN weights THEN weights[feature] ELSE <<>>]
    /\ UNCHANGED <<rankerClass, build, entryWeights, fitFrame, rankCalls, fits>>

\* the method called goes on from what parse returned, and returns
ScoreReturn ==
    /\ rankPc = "scoring"
    /\ parseEnded
    /\ rankOut' \in rankOutcomes(rankOut.op, weights, chart, parses)
    /\ rankPc' = "idle"
    /\ UNCHANGED <<rankerClass, build, weights, entryWeights, fitFrame,
                   rankCalls, fits>>

\* a ranker of either class, built either way, on RankGrammar: the Grammar
\* constructor is at processRules, and the weights are {}
RankInit ==
    /\ roots = RankGrammar.roots
    /\ subparsers = RankGrammar.subparsers
    /\ thisRules = RankGrammar.rules
    /\ rules = RankGrammar.rules
    /\ words = RankGrammar.words
    /\ gPc = "processRules"
    /\ lexicalRules = emptyTable
    /\ unaryRules = emptyTable
    /\ binaryRules = emptyTable
    /\ generatedLexicalRules = {}
    /\ generatedNaryRules = {}
    /\ pc = "idle"
    /\ utterance = <<>>
    /\ rootsArg = JsUndefined
    /\ tokens = <<>>
    /\ chart = emptyChart
    /\ spanL = 0
    /\ spanI = 0
    /\ unaryK = 0
    /\ parses = <<>>
    /\ consulted = {}
    /\ invoked = {}
    /\ denotation = [n |-> 0, value |-> JsUndefined]
    /\ scored = <<>>
    /\ symPc = "off"
    /\ sym = <<>>
    /\ strip1 = <<>>
    /\ strip2 = <<>>
    /\ rulePc = "off"
    /\ ruleArgs = NoRuleArgs
    /\ ruleOut = Raise("")
    /\ concatPc = "off"
    /\ newFeatures = <<>>
    /\ features = <<>>
    /\ rankPc = "idle"
    /\ rankerClass \in {"linear", "softmax"}
    /\ build \in {"native", "babel"}
    /\ weights = <<>>
    /\ entryWeights = <<>>
    /\ fitFrame = NoFit
    /\ rankOut = NoOut
    /\ rankCalls = 0
    /\ fits = 0
    /\ earlier = NoCall
    /\ precPc = "off"
    /\ precParse = <<>>
    /\ precFeatures = <<>>
    /\ shufPc = "off"
    /\ shufArr = <<>>
    /\ shufCopy = <<>>
    /\ shufI = 0

RankNext ==
    \/ ProcessOptionalRule /\ UNCHANGED <<symVars, ruleVars, parseVars, concatVars, rankVars, callVars, precVars, shuffleVars>>
    \/ ProcessMixedRule /\ UNCHANGED <<symVars, ruleVars, parseVars, concatVars, rankVars, callVars, precVars, shuffleVars>>
    \/ ProcessNaryRule /\ UNCHANGED <<symVars, ruleVars, parseVars, concatVars, rankVars, callVars, precVars, shuffleVars>>
    \/ InstallLexicalRule /\ UNCHANGED <<symVars, ruleVars, parseVars, concatVars, rankVars, callVars, precVars, shuffleVars>>
    \/ InstallUnaryRule /\ UNCHANGED <<symVars, ruleVars, parseVars, concatVars, rankVars, callVars, precVars, shuffleVars>>
    \/ InstallBinaryRule /\ UNCHANGED <<symVars, ruleVars, parseVars, concatVars, rankVars, callVars, precVars, shuffleVars>>
    \/ ProcessRulesReturn /\ UNCHANGED <<symVars, ruleVars, parseVars, concatVars, rankVars, callVars, precVars, shuffleVars>>
    \/ ApplySubparsers /\ UNCHANGED <<symVars, ruleVars, grammarVars, concatVars, rankVars, callVars, precVars, shuffleVars>>
    \/ ApplyLexicalRules /\ UNCHANGED <<symVars, ruleVars, grammarVars, concatVars, rankVars, callVars, precVars, shuffleVars>>
    \/ ApplyBinaryRules /\ UNCHANGED <<symVars, ruleVars, grammarVars, concatVars, rankVars, callVars, precVars, shuffleVars>>
    \/ ApplyUnaryRules /\ UNCHANGED <<symVars, ruleVars, grammarVars, concatVars, rankVars, callVars, precVars, shuffleVars>>
    \/ NextSpan /\ UNCHANGED <<symVars, ruleVars, grammarVars, concatVars, rankVars, callVars, precVars, shuffleVars>>
    \/ ReturnParses /\ UNCHANGED <<symVars, ruleVars, grammarVars, concatVars, rankVars, callVars, precVars, shuffleVars>>
    \/ FitCall /\ UNCHANGED <<symVars, ruleVars, grammarVars, parseVars, concatVars, callVars, precVars, shuffleVars>>
    \/ EpochStart /\ UNCHANGED <<symVars, ruleVars, grammarVars, parseVars, concatVars, callVars, precVars, shuffleVars>>
    \/ SampleParse /\ UNCHANGED <<symVars, ruleVars, grammarVars, concatVars, callVars, precVars, shuffleVars>>
    \/ SampleUpdate /\ UNCHANGED <<symVars, ruleVars, grammarVars, parseVars, concatVars, callVars, precVars, shuffleVars>>
    \/ EpochEnd /\ UNCHANGED <<symVars, ruleVars, grammarVars, parseVars, concatVars, callVars, precVars, shuffleVars>>
    \/ ScoreCall /\ UNCHANGED <<symVars, ruleVars, grammarVars, concatVars, callVars, precVars, shuffleVars>>
    \/ ScoreReturn /\ UNCHANGED <<symVars, ruleVars, grammarVars, parseVars, concatVars, callVars, precVars, shuffleVars>>

SpecRank == RankInit /\ [][RankNext]_vars

-----------------------------------------------------------------------------
(* The Grammar constructor and parse on a grammar with categorical rules   *)
(* of three and four symbols that begin with the same two categories.      *)

symC == <<"$", "C">>
symD == <<"$", "D">>
symS == <<"$", "S">>

\* $R -> $A $B $C $D, $R -> $A $B $D, $A -> a (twice), $B -> b, $B -> b d,
\* $C -> c (twice), $D -> ?e d, $S -> x $R (twice), $S -> $D, and the two
\* sub-parsers
BinGrammar ==
    [roots |-> <<symR, symS>>,
     subparsers |-> <<"digitParser", "ignorableParser">>,
     rules |-> << authorRule(<<"t">>, symR,
                             symA \o sp \o symB \o sp \o symC \o sp \o symD,
                             AuthorSem("four")),
                  authorRule(<<"u">>, symR, symA \o sp \o symB \o sp \o symD,
                             AuthorSem("three")),
                  authorRule(<<"a">>, symA, <<"a">>, AuthorSem("A")),
                  authorRule(<<"a", "2">>, symA, <<"a">>, AuthorSem("A2")),
                  authorRule(<<"b">>, symB, <<"b">>, AuthorSem("B")),
                  authorRule(<<"b", "d">>, symB, <<"b", " ", "d">>, AuthorSem("BD")),
                  authorRule(<<"c">>, symC, <<"c">>, AuthorSem("C")),
                  authorRule(<<"c", "2">>, symC, <<"c">>, AuthorSem("C2")),
                  authorRule(<<"d">>, symD, <<"?", "e", " ", "d">>, AuthorSem("D")),
                  authorRule(<<"m">>, symS, <<"x">> \o sp \o symR,
                             AuthorSem("mixed")),
                  authorRule(<<"m", "2">>, symS, <<"x">> \o sp \o symR,
                             AuthorSem("mixed2")),
                  authorRule(<<"s">>, symS, symD, AuthorSem("up")) >>,
     words |-> {<<"a">>, <<"b">>, <<"c">>, <<"d">>, <<"e">>, <<"x">>, <<"7">>}]

\* utterances the rules of four and of three symbols derive, with and
\* without the optional word, and utterances they do not derive
BinUtterances ==
    { join(u, sp) :
        u \in { <<<<"a">>, <<"b">>, <<"c">>, <<"d">>>>,
                <<<<"a">>, <<"b">>, <<"d">>>>,
                <<<<"a">>, <<"b">>, <<"c">>, <<"e">>, <<"d">>>>,
                <<<<"x">>, <<"a">>, <<"b">>, <<"d">>>>,
                <<<<"a">>, <<"b">>, <<"c">>>>,
                <<<<"b">>, <<"a">>, <<"d">>>>,
                <<<<"a">>, <<"b">>>>,
                <<<<"d">>>>,
                <<<<"7">>>> } }

BinInit ==
    /\ roots = BinGrammar.roots
    /\ subparsers = BinGrammar.subparsers
    /\ thisRules = BinGrammar.rules
    /\ rules = BinGrammar.rules
    /\ words = BinGrammar.words
    /\ gPc = "processRules"
    /\ lexicalRules = emptyTable
    /\ unaryRules = emptyTable
    /\ binaryRules = emptyTable
    /\ generatedLexicalRules = {}
    /\ generatedNaryRules = {}
    /\ pc = "idle"
    /\ utterance = <<>>
    /\ rootsArg = JsUndefined
    /\ tokens = <<>>
    /\ chart = emptyChart
    /\ spanL = 0
    /\ spanI = 0
    /\ unaryK = 0
    /\ parses = <<>>
    /\ consulted = {}
    /\ invoked = {}
    /\ denotation = [n |-> 0, value |-> JsUndefined]
    /\ scored = <<>>
    /\ symPc = "off"
    /\ sym = <<>>
    /\ strip1 = <<>>
    /\ strip2 = <<>>
    /\ rulePc = "off"
    /\ ruleArgs = NoRuleArgs
    /\ ruleOut = Raise("")
    /\ concatPc = "off"
    /\ newFeatures = <<>>
    /\ features = <<>>
    /\ rankPc = "off"
    /\ rankerClass = "none"
    /\ build = "none"
    /\ weights = <<>>
    /\ entryWeights = <<>>
    /\ fitFrame = <<>>
    /\ rankOut = <<>>
    /\ rankCalls = 0
    /\ fits = 0
    /\ earlier = NoCall
    /\ precPc = "off"
    /\ precParse = <<>>
    /\ precFeatures = <<>>
    /\ shufPc = "off"
    /\ shufArr = <<>>
    /\ shufCopy = <<>>
    /\ shufI = 0

\* parse is called on the constructed grammar, the first time or after a
\* call that has returned, whose result the caller keeps
BinParseCall ==
    /\ gPc = "ready"
    /\ pc \in {"idle", "done"}
    /\ \E u \in BinUtterances : parseCall(u, JsUndefined)
    /\ earlier' = IF pc = "done"
                  THEN [utterance |-> utterance, chart |-> chart, parses |-> parses]
                  ELSE earlier
    /\ UNCHANGED <<denotation, scored>>

BinNext ==
    \/ ProcessOptionalRule /\ UNCHANGED <<symVars, ruleVars, parseVars, concatVars, rankVars, callVars, precVars, shuffleVars>>
    \/ ProcessMixedRule /\ UNCHANGED <<symVars, ruleVars, parseVars, concatVars, rankVars, callVars, precVars, shuffleVars>>
    \/ ProcessNaryRule /\ UNCHANGED <<symVars, ruleVars, parseVars, concatVars, rankVars, callVars, precVars, shuffleVars>>
    \/ InstallLexicalRule /\ UNCHANGED <<symVars, ruleVars, parseVars, concatVars, rankVars, callVars, precVars, shuffleVars>>
    \/ InstallUnaryRule /\ UNCHANGED <<symVars, ruleVars, parseVars, concatVars, rankVars, callVars, precVars, shuffleVars>>
    \/ InstallBinaryRule /\ UNCHANGED <<symVars, ruleVars, parseVars, concatVars, rankVars, callVars, precVars, shuffleVars>>
    \/ ProcessRulesReturn /\ UNCHANGED <<symVars, ruleVars, parseVars, concatVars, rankVars, callVars, precVars, shuffleVars>>
    \/ BinParseCall /\ UNCHANGED <<symVars, ruleVars, grammarVars, concatVars, rankVars, precVars, shuffleVars>>
    \/ ApplySubparsers /\ UNCHANGED <<symVars, ruleVars, grammarVars, concatVars, rankVars, callVars, precVars, shuffleVars>>
    \/ ApplyLexicalRules /\ UNCHANGED <<symVars, ruleVars, grammarVars, concatVars, rankVars, callVars, precVars, shuffleVars>>
    \/ ApplyBinaryRules /\ UNCHANGED <<symVars, ruleVars, grammarVars, concatVars, rankVars, callVars, precVars, shuffleVars>>
    \/ ApplyUnaryRules /\ UNCHANGED <<symVars, ruleVars, grammarVars, concatVars, rankVars, callVars, precVars, shuffleVars>>
    \/ NextSpan /\ UNCHANGED <<symVars, ruleVars, grammarVars, concatVars, rankVars, callVars, precVars, shuffleVars>>
    \/ ReturnParses /\ UNCHANGED <<symVars, ruleVars, grammarVars, concatVars, rankVars, callVars, precVars, shuffleVars>>

SpecBin == BinInit /\ [][BinNext]_vars

-----------------------------------------------------------------------------
(* The Grammar constructor alone, on generated author rules: every rhs of  *)
(* up to MaxRhsLen symbols over a terminal, a non-terminal, their          *)
(* optionals and a capitalised terminal, alone or followed by a second     *)
(* rule that shares its lexical elements and its prefixes.                 *)

NormSymbols == {<<"a">>, <<"?", "a">>, symN, <<"?">> \o symN, <<"B">>}
NormRhss == SeqsUpTo(NormSymbols, MaxRhsLen) \ {<<>>}
NormRule(tag, rhs) == authorRule(<<tag>>, symR, join(rhs, sp), AuthorSem(tag))
NormRuleLists ==
    { <<NormRule("t", rhs)>> : rhs \in NormRhss }
    \cup { <<NormRule("t", rhs), NormRule("u", rhs)>> : rhs \in NormRhss }
    \cup { <<NormRule("t", rhs), NormRule("u", <<symN, <<"a">>>>)>> :
              rhs \in NormRhss }

NormInit ==
    /\ \E list \in NormRuleLists :
          /\ thisRules = list
          /\ rules = list
    /\ roots = <<symR>>
    /\ subparsers = <<>>
    /\ words = {}
    /\ gPc = "processRules"
    /\ lexicalRules = emptyTable
    /\ unaryRules = emptyTable
    /\ binaryRules = emptyTable
    /\ generatedLexicalRules = {}
    /\ generatedNaryRules = {}
    /\ pc = "idle"
    /\ utterance = <<>>
    /\ rootsArg = JsUndefined
    /\ tokens = <<>>
    /\ chart = emptyChart
    /\ spanL = 0
    /\ spanI = 0
    /\ unaryK = 0
    /\ parses = <<>>
    /\ consulted = {}
    /\ invoked = {}
    /\ denotation = [n |-> 0, value |-> JsUndefined]
    /\ scored = <<>>
    /\ symPc = "off"
    /\ sym = <<>>
    /\ strip1 = <<>>
    /\ strip2 = <<>>
    /\ rulePc = "off"
    /\ ruleArgs = NoRuleArgs
    /\ ruleOut = Raise("")
    /\ concatPc = "off"
    /\ newFeatures = <<>>
    /\ features = <<>>
    /\ rankPc = "off"
    /\ rankerClass = "none"
    /\ build = "none"
    /\ weights = <<>>
    /\ entryWeights = <<>>
    /\ fitFrame = <<>>
    /\ rankOut = <<>>
    /\ rankCalls = 0
    /\ fits = 0
    /\ earlier = NoCall
    /\ precPc = "off"
    /\ precParse = <<>>
    /\ precFeatures = <<>>
    /\ shufPc = "off"
    /\ shufArr = <<>>
    /\ shufCopy = <<>>
    /\ shufI = 0

NormNext ==
    \/ ProcessOptionalRule /\ UNCHANGED <<symVars, ruleVars, parseVars, concatVars, rankVars, callVars, precVars, shuffleVars>>
    \/ ProcessMixedRule /\ UNCHANGED <<symVars, ruleVars, parseVars, concatVars, rankVars, callVars, precVars, shuffleVars>>
    \/ ProcessNaryRule /\ UNCHANGED <<symVars, ruleVars, parseVars, concatVars, rankVars, callVars, precVars, shuffleVars>>
    \/ InstallLexicalRule /\ UNCHANGED <<symVars, ruleVars, parseVars, concatVars, rankVars, callVars, precVars, shuffleVars>>
    \/ InstallUnaryRule /\ UNCHANGED <<symVars, ruleVars, parseVars, concatVars, rankVars, callVars, precVars, shuffleVars>>
    \/ InstallBinaryRule /\ UNCHANGED <<symVars, ruleVars, parseVars, concatVars, rankVars, callVars, precVars, shuffleVars>>
    \/ ProcessRulesReturn /\ UNCHANGED <<symVars, ruleVars, parseVars, concatVars, rankVars, callVars, precVars, shuffleVars>>

SpecNorm == NormInit /\ [][NormNext]_vars

\* the constructor is one synchronous call: the loop takes its next step
\* whenever it has one
FairSpecNorm == SpecNorm /\ WF_vars(NormNext)

-----------------------------------------------------------------------------
(* featurize.js: ConcatFeaturizer *)

\* a variant of the key that leaves the index out
outputKeyWithoutIndex(feature, i) == feature

\* the decimal digit d as a character
digitChar(d) == <<"0", "1", "2", "3", "4", "5", "6", "7", "8", "9">>[d + 1]

RECURSIVE numberToString(_)
\* `${i}` for an array index i
numberToString(i) ==
    IF i < 10 THEN <<digitChar(i)>>
    ELSE numberToString(i \div 10) \o <<digitChar(i % 10)>>

\* `${feature}_${i}`
outputKey(feature, i) == feature \o <<"_">> \o numberToString(i)

\* the inner loop: features[`${feature}_${i}`] = newFeatures[feature] for
\* every feature of the i-th featurizer; an assignment to a key already
\* there replaces its value
assignFeatures(old, new, i) ==
    LET keys == {outputKey(feature, i) : feature \in DOMAIN new}
    IN  [key \in DOMAIN old \cup keys |->
            IF key \in keys
            THEN new[CHOOSE feature \in DOMAIN new : outputKey(feature, i) = key]
            ELSE old[key]]

RECURSIVE concatFrom(_, _, _)
\* the outer loop from index i on
concatFrom(outputs, i, acc) ==
    IF i >= Len(outputs) THEN acc
    ELSE concatFrom(outputs, i + 1, assignFeatures(acc, outputs[i + 1], i))

\* const features = {}
emptyFeatures == [key \in {} |-> 0]

\* ConcatFeaturizer.transform(parse), given what the featurizers return
concatTransform(outputs) == concatFrom(outputs, 0, emptyFeatures)
-----------------------------------------------------------------------------
(* ConcatFeaturizer.transform on generated featurizers: up to              *)
(* MaxFeaturizers of them, or eleven of which the first and the last       *)
(* return features, so that the index has one digit or two.                *)

FeatureKeys == {<<"a">>, <<"a", "1">>, <<"a", "_", "1">>, <<"_">>}
FeatureValues == {1, 2}
\* what a featurizer returns: some of the keys, with one of the values
FeatureMaps ==
    {[key \in keys |-> v] : keys \in SUBSET FeatureKeys, v \in FeatureValues}
LongList(first, last) ==
    <<first>> \o [n \in 1..9 |-> emptyFeatures] \o <<last>>
FeaturizerOutputs ==
    SeqsUpTo(FeatureMaps, MaxFeaturizers)
    \cup {LongList(first, last) : first \in FeatureMaps, last \in FeatureMaps}

ConcatInit ==
    /\ concatPc = "start"
    /\ newFeatures \in FeaturizerOutputs
    /\ features = emptyFeatures
    /\ gPc = "off"
    /\ roots = <<>>
    /\ subparsers = <<>>
    /\ thisRules = <<>>
    /\ words = {}
    /\ rules = <<>>
    /\ lexicalRules = emptyTable
    /\ unaryRules = emptyTable
    /\ binaryRules = emptyTable
    /\ generatedLexicalRules = {}
    /\ generatedNaryRules = {}
    /\ pc = "idle"
    /\ utterance = <<>>
    /\ rootsArg = JsUndefined
    /\ tokens = <<>>
    /\ chart = emptyChart
    /\ spanL = 0
    /\ spanI = 0
    /\ unaryK = 0
    /\ parses = <<>>
    /\ consulted = {}
    /\ invoked = {}
    /\ denotation = [n |-> 0, value |-> JsUndefined]
    /\ scored = <<>>
    /\ symPc = "off"
    /\ sym = <<>>
    /\ strip1 = <<>>
    /\ strip2 = <<>>
    /\ rulePc = "off"
    /\ ruleArgs = NoRuleArgs
    /\ ruleOut = Raise("")
    /\ rankPc = "off"
    /\ rankerClass = "none"
    /\ build = "none"
    /\ weights = <<>>
    /\ entryWeights = <<>>
    /\ fitFrame = <<>>
    /\ rankOut = <<>>
    /\ rankCalls = 0
    /\ fits = 0
    /\ earlier = NoCall
    /\ precPc = "off"
    /\ precParse = <<>>
    /\ precFeatures = <<>>
    /\ shufPc = "off"
    /\ shufArr = <<>>
    /\ shufCopy = <<>>
    /\ shufI = 0

ConcatTransform ==
    /\ concatPc = "start"
    /\ features' = concatTransform(newFeatures)
    /\ concatPc' = "returned"
    /\ UNCHANGED newFeatures

ConcatNext ==
    ConcatTransform
        /\ UNCHANGED <<symVars, ruleVars, grammarVars, parseVars, rankVars, callVars,
                       precVars, shuffleVars>>

SpecConcat == ConcatInit /\ [][ConcatNext]_vars

-----------------------------------------------------------------------------
(* featurize.js: ParsePrecedenceFeaturizer.transform on derivation trees   *)

MaxChildren == 2
MaxTreeDepth == 3

\* a tag is any string
PrecTags == {<<"a">>, <<"b">>, <<"a", ",", "a">>}

RECURSIVE PrecParses(_)
\* the trees of up to `depth` levels; transform reads tag and children only
PrecParses(depth) ==
    IF depth = 1
    THEN { [tag |-> t, children |-> <<>>] : t \in PrecTags }
    ELSE { [tag |-> t, children |-> c] :
             t \in PrecTags,
             c \in UNION { [1..n -> PrecParses(depth - 1)] : n \in 0..MaxChildren } }

\* if (!features.hasOwnProperty(key)) features[key] = 0; features[key] += 1
incremented(feats, key) ==
    [k \in DOMAIN feats \cup {key} |->
        (IF k \in DOMAIN feats THEN feats[k] ELSE 0) + (IF k = key THEN 1 ELSE 0)]

RECURSIVE addPrecedenceOf(_, _, _)
\* for (let oldParseTag of parseTags): the key [oldParseTag, parseTag] names
\* the property String([oldParseTag, parseTag])
addPrecedenceOf(feats, parseTags, parseTag) ==
    IF parseTags = {}
    THEN feats
    ELSE LET oldParseTag == CHOOSE tag \in parseTags : TRUE
         IN  addPrecedenceOf(incremented(feats, arrayKey(<<oldParseTag, parseTag>>)),
                             parseTags \ {oldParseTag}, parseTag)

RECURSIVE addParsePrecedenceFeatures(_, _, _), addToChildren(_, _, _, _)
\* parse.children.forEach(child => addParsePrecedenceFeatures(child,
\* features, new Set(parseTags))): one object of features, a new set each
addToChildren(children, n, feats, parseTags) ==
    IF n > Len(children)
    THEN feats
    ELSE addToChildren(children, n + 1,
                       addParsePrecedenceFeatures(children[n], feats, parseTags),
                       parseTags)

addParsePrecedenceFeatures(parse, feats, parseTags) ==
    addToChildren(parse.children, 1,
                  addPrecedenceOf(feats, parseTags, parse.tag),
                  parseTags \cup {parse.tag})

\* this.transform(parse)
precedenceTransform(parse) == addParsePrecedenceFeatures(parse, emptyFeatures, {})

PrecInit ==
    /\ precPc = "start"
    /\ precParse \in PrecParses(MaxTreeDepth)
    /\ precFeatures = emptyFeatures
    /\ concatPc = "off"
    /\ newFeatures = <<>>
    /\ features = emptyFeatures
    /\ gPc = "off"
    /\ roots = <<>>
    /\ subparsers = <<>>
    /\ thisRules = <<>>
    /\ words = {}
    /\ rules = <<>>
    /\ lexicalRules = emptyTable
    /\ unaryRules = emptyTable
    /\ binaryRules = emptyTable
    /\ generatedLexicalRules = {}
    /\ generatedNaryRules = {}
    /\ pc = "idle"
    /\ utterance = <<>>
    /\ rootsArg = JsUndefined
    /\ tokens = <<>>
    /\ chart = emptyChart
    /\ spanL = 0
    /\ spanI = 0
    /\ unaryK = 0
    /\ parses = <<>>
    /\ consulted = {}
    /\ invoked = {}
    /\ denotation = [n |-> 0, value |-> JsUndefined]
    /\ scored = <<>>
    /\ symPc = "off"
    /\ sym = <<>>
    /\ strip1 = <<>>
    /\ strip2 = <<>>
    /\ rulePc = "off"
    /\ ruleArgs = NoRuleArgs
    /\ ruleOut = Raise("")
    /\ rankPc = "off"
    /\ rankerClass = "none"
    /\ build = "none"
    /\ weights = <<>>
    /\ entryWeights = <<>>
    /\ fitFrame = <<>>
    /\ rankOut = <<>>
    /\ rankCalls = 0
    /\ fits = 0
    /\ earlier = NoCall
    /\ shufPc = "off"
    /\ shufArr = <<>>
    /\ shufCopy = <<>>
    /\ shufI = 0

PrecTransform ==
    /\ precPc = "start"
    /\ precFeatures' = precedenceTransform(precParse)
    /\ precPc' = "returned"
    /\ UNCHANGED precParse

PrecNext ==
    PrecTransform
        /\ UNCHANGED <<symVars, ruleVars, grammarVars, parseVars, concatVars, rankVars,
                       callVars, shuffleVars>>

SpecPrec == PrecInit /\ [][PrecNext]_vars

-----------------------------------------------------------------------------
(* random.js: shuffle, step by step, on the arrays range(numSamples) that  *)
(* fit passes to it                                                        *)

MaxShuffle == 5

\* Math.floor(Math.random() * (i + 1)), Math.random() being in [0, 1)
randomIndex(i) == 0..i

ShuffleInit ==
    /\ shufPc = "called"
    /\ shufArr \in {range(numSamples) : numSamples \in 0..MaxShuffle}
    /\ shufCopy = <<>>
    /\ shufI = 0
    /\ precPc = "off"
    /\ precParse = <<>>
    /\ precFeatures = <<>>
    /\ concatPc = "off"
    /\ newFeatures = <<>>
    /\ features = emptyFeatures
    /\ gPc = "off"
    /\ roots = <<>>
    /\ subparsers = <<>>
    /\ thisRules = <<>>
    /\ words = {}
    /\ rules = <<>>
    /\ lexicalRules = emptyTable
    /\ unaryRules = emptyTable
    /\ binaryRules = emptyTable
    /\ generatedLexicalRules = {}
    /\ generatedNaryRules = {}
    /\ pc = "idle"
    /\ utterance = <<>>
    /\ rootsArg = JsUndefined
    /\ tokens = <<>>
    /\ chart = emptyChart
    /\ spanL = 0
    /\ spanI = 0
    /\ unaryK = 0
    /\ parses = <<>>
    /\ consulted = {}
    /\ invoked = {}
    /\ denotation = [n |-> 0, value |-> JsUndefined]
    /\ scored = <<>>
    /\ symPc = "off"
    /\ sym = <<>>
    /\ strip1 = <<>>
    /\ strip2 = <<>>
    /\ rulePc = "off"
    /\ ruleArgs = NoRuleArgs
    /\ ruleOut = Raise("")
    /\ rankPc = "off"
    /\ rankerClass = "none"
    /\ build = "none"
    /\ weights = <<>>
    /\ entryWeights = <<>>
    /\ fitFrame = <<>>
    /\ rankOut = <<>>
    /\ rankCalls = 0
    /\ fits = 0
    /\ earlier = NoCall

\* const arrCopy = arr.slice(); and the head of the loop
ShuffleCopy ==
    /\ shufPc = "called"
    /\ shufCopy' = shufArr
    /\ shufI' = Len(shufArr) - 1
    /\ shufPc' = "loop"
    /\ UNCHANGED shufArr

\* one iteration: a random j in 0..i, and arrCopy[i] and arrCopy[j] exchanged
ShuffleSwap ==
    /\ shufPc = "loop"
    /\ shufI > 0
    /\ \E j \in randomIndex(shufI) : shufCopy' = swapped(shufCopy, shufI, j)
    /\ shufI' = shufI - 1
    /\ UNCHANGED <<shufPc, shufArr>>

\* return arrCopy
ShuffleReturn ==
    /\ shufPc = "loop"
    /\ ~(shufI > 0)
    /\ shufPc' = "returned"
    /\ UNCHANGED <<shufArr, shufCopy, shufI>>

ShuffleNext ==
    \/ ShuffleCopy /\ UNCHANGED <<symVars, ruleVars, grammarVars, parseVars, concatVars, rankVars, callVars, precVars>>
    \/ ShuffleSwap /\ UNCHANGED <<symVars, ruleVars, grammarVars, parseVars, concatVars, rankVars, callVars, precVars>>
    \/ ShuffleReturn /\ UNCHANGED <<symVars, ruleVars, grammarVars, parseVars, concatVars, rankVars, callVars, precVars>>

SpecShuffle == ShuffleInit /\ [][ShuffleNext]_vars

-----------------------------------------------------------------------------
(* C9: stripOptional is idempotent, and returns a symbol that is not an    *)
(* optional unchanged.                                                     *)
C9_StripOptionalIdempotent ==
    /\ symPc = "twice" => strip2 = strip1
    /\ (symPc \in {"once", "twice"} /\ ~isOptional(sym)) => strip1 = sym

(* C8: the Rule constructor raises on a tag that is no string, an lhs that *)
(* is no non-terminal, a rhs that yields no symbols and a semantics that   *)
(* is not callable; a rule it constructs has arity >= 1 and only non-empty *)
(* rhs symbols.                                                            *)
RhsYieldsNoSymbols(rhs) ==
    \/ isType(rhs, "Array") /\ Len(rhs.a) = 0
    \/ isType(rhs, "String") /\ \A p \in 1..Len(rhs.s) : rhs.s[p] = " "

C8_RuleConstructionValidates ==
    rulePc = "constructed" =>
        /\ ( \/ ~isType(ruleArgs.tag, "String")
             \/ ~isType(ruleArgs.lhs, "String")
             \/ isTerminal(ruleArgs.lhs.s)
             \/ ~(isType(ruleArgs.rhs, "String") \/ isType(ruleArgs.rhs, "Array"))
             \/ RhsYieldsNoSymbols(ruleArgs.rhs)
             \/ ~isType(ruleArgs.semantics, "Function") ) => ~ruleOut.ok
        /\ ruleOut.ok =>
              /\ arity(ruleOut.value) >= 1
              /\ \A p \in 1..Len(ruleOut.value.rhs) :
                    Len(ruleOut.value.rhs[p]) > 0

-----------------------------------------------------------------------------
(* Claims about Grammar.parse.                                             *)

\* parse has returned its array
returned == pc \in {"done", "denoted", "scored", "scoringThrew"}

\* the cell of the whole utterance
fullCell == chart[<<0, Len(tokens)>>]

\* the elements of a sequence
Range(q) == { q[n] : n \in 1..Len(q) }

(* C1: parse returns exactly the derivations of the full-span cell whose   *)
(* category is in the roots, in cell order; every derivation of the cell   *)
(* when the roots are empty; the roots are the grammar's own when the      *)
(* argument is omitted.                                                    *)
C1_ParseReturnsRootsOfFullCell ==
    (returned /\ Len(tokens) > 0) =>
        LET rts == IF rootsArg.t = "Undefined" THEN roots ELSE rootsArg.a
        IN  IF rts = <<>>
            THEN parses = fullCell
            ELSE parses = SelectSeq(fullCell, LAMBDA d : d.category \in Range(rts))

\* parse returned with the roots omitted, and the grammar's roots kept some
\* derivations of the full cell and dropped others
C1_Witness ==
    /\ pc = "done"
    /\ rootsArg.t = "Undefined"
    /\ Len(roots) = 2
    /\ Len(parses) > 0
    /\ Len(parses) < Len(fullCell)

\* the characters of s from offset b up to offset e
substring(b, e) == [p \in 1..(e - b) |-> utterance[b + p]]

(* C2: every derivation made from a rule in cell [i, j) has as its span    *)
(* the verbatim substring of s from the start offset of token i to the end *)
(* offset of token j-1.                                                    *)
C2_SpanIsVerbatimSubstring ==
    \A q \in DOMAIN chart : \A n \in 1..Len(chart[q]) :
        "rule" \in DOMAIN chart[q][n] =>
            chart[q][n].span =
                substring(tokens[q[1] + 1].span[1], tokens[q[2]].span[2])

\* a returned derivation over three tokens of an utterance with punctuation
\* that the tokens do not keep
C2_Witness ==
    /\ pc = "done"
    /\ Len(tokens) = 3
    /\ \E n \in 1..Len(parses) :
          /\ "rule" \in DOMAIN parses[n]
          /\ "!" \in Range(parses[n].span)
          /\ Len(parses[n].children) > 0

(* C5: when the tokenizer yields no tokens, parse returns the empty array  *)
(* and has read no sub-parser and no rule table.                           *)
C5_NoTokensReturnsEmpty ==
    (pc # "idle" /\ Len(tokenize(utterance)) = 0) =>
        /\ pc \in {"done", "scored"}
        /\ parses = <<>>
        /\ consulted = {}
        /\ chart = emptyChart

\* parse returned on a string of whitespace only
C5_Witness ==
    /\ pc = "done"
    /\ utterance = <<" ">>
    /\ tokens = <<>>
    /\ parses = <<>>

\* the derivation whose denotation the caller computed
denoted == parses[denotation.n]

RECURSIVE semanticsOfTree(_, _)
\* the semantics functions of the derivations of a tree
semanticsOfTree(ch, parse) ==
    {parse.semantics}
    \cup UNION { semanticsOfTree(ch, deref(ch, parse.children[c])) :
                    c \in 1..Len(parse.children) }

(* C6: parse calls no semantics function and is not left by an exception   *)
(* of one; a throwing semantics in the tree of a returned derivation       *)
(* throws when, and only when, computeDenotation is called on it, and the  *)
(* exception reaches that caller.                                          *)
C6_SemanticsDeferred ==
    /\ pc \in {"subparsers", "lexical", "binary", "unary", "return", "done"}
          => invoked = {}
    /\ pc # "threw"
    /\ pc = "denoted" =>
          /\ invoked \subseteq semanticsOfTree(chart, denoted)
          /\ (\E sem \in semanticsOfTree(chart, denoted) : sem.k = "throws")
                => denotation.value = Thrown

\* parse returned a derivation above a rule with a throwing semantics, and
\* computeDenotation on it threw
C6_Witness ==
    /\ pc = "denoted"
    /\ denotation.value = Thrown
    /\ denoted.semantics.k = "author"
    /\ \E sem \in semanticsOfTree(chart, denoted) : sem.k = "throws"

\* the cells parse has finished with
finishedCells ==
    IF returned \/ pc = "return"
    THEN DOMAIN chart
    ELSE DOMAIN chart \ {<<spanI, spanJ>>}

\* the parses the configured sub-parsers return on the verbatim span of a cell
subparserResults(q) ==
    flatten([n \in 1..Len(subparsers) |->
        subparserParse(subparsers[n],
                       substring(tokens[q[1] + 1].span[1], tokens[q[2]].span[2]))])

\* a parse that came from a sub-parser
fromSubparser(p) == "rule" \notin DOMAIN p

\* a derivation of `rule` over the children `refs` is in cell q
derived(q, rule, refs) ==
    \E n \in 1..Len(chart[q]) :
        /\ ~fromSubparser(chart[q][n])
        /\ chart[q][n].rule = rule
        /\ chart[q][n].children = refs

(* C7: every parse of every configured sub-parser on the verbatim span of  *)
(* a cell is in the cell as returned, ahead of the derivations of the      *)
(* rules, and each is combined by every unary rule on its category and by  *)
(* every binary rule with its category on the matching side, whether or    *)
(* not that category is the lhs of a rule of the grammar.                  *)
C7_SubparserParsesComposed ==
    /\ \A q \in DOMAIN chart :
          /\ Len(subparserResults(q)) <= Len(chart[q])
          /\ SubSeq(chart[q], 1, Len(subparserResults(q))) = subparserResults(q)
    /\ \A q \in finishedCells : \A n \in 1..Len(chart[q]) :
          fromSubparser(chart[q][n]) =>
              \A r \in Range(lookup(unaryRules, chart[q][n].category)) :
                  derived(q, r, <<childRef(q[1], q[2], n)>>)
    /\ \A q \in finishedCells : \A m \in (q[1] + 1)..(q[2] - 1) :
          \A a \in 1..Len(chart[<<q[1], m>>]) : \A b \in 1..Len(chart[<<m, q[2]>>]) :
              LET lParse == chart[<<q[1], m>>][a]
                  rParse == chart[<<m, q[2]>>][b]
              IN  (fromSubparser(lParse) \/ fromSubparser(rParse)) =>
                      \A r \in Range(lookup(binaryRules,
                                            lParse.category \o <<",">> \o rParse.category)) :
                          derived(q, r, <<childRef(q[1], m, a), childRef(m, q[2], b)>>)

\* parse returned a derivation of a binary rule over a parse of the
\* ignorable sub-parser and a derivation of a unary rule over a parse of the
\* digit sub-parser; neither category is the lhs of a rule
C7_Witness ==
    /\ pc = "done"
    /\ \E n \in 1..Len(parses) :
          /\ Len(parses[n].children) = 2
          /\ fromSubparser(deref(chart, parses[n].children[1]))
          /\ LET right == deref(chart, parses[n].children[2])
             IN  /\ Len(right.children) = 1
                 /\ fromSubparser(deref(chart, right.children[1]))
                 /\ deref(chart, right.children[1]).category = NumberCategory
          /\ \A r \in 1..Len(thisRules) :
                thisRules[r].lhs \notin {NumberCategory, IgnorableCategory}

RECURSIVE unaryChain(_, _)
\* the rules of the chain of unary derivations that ends in d, top first
unaryChain(ch, d) ==
    IF ~fromSubparser(d) /\ Len(d.children) = 1
    THEN <<d.rule>> \o unaryChain(ch, deref(ch, d.children[1]))
    ELSE <<>>

(* C4: the unary pass over a cell is bounded, so that parse terminates on  *)
(* every grammar: no derivation of the pass applies a rule a second time   *)
(* in its own chain of unary derivations over the cell, which is what a    *)
(* pass that never ends does.                                              *)
C4_UnaryPassBounded ==
    \A q \in DOMAIN chart : \A n \in 1..Len(chart[q]) :
        LET chain == unaryChain(chart, chart[q][n])
        IN  \A a, b \in 1..Len(chain) : a # b => chain[a] # chain[b]

(* C10: scoresAndDenotations lists each distinct denotation once, however  *)
(* many parses share it, and the constant ranker scores each 0.            *)
C10_DenotationsAggregated ==
    pc = "scored" =>
        /\ \A m, n \in 1..Len(scored) : m # n => scored[m][2] # scored[n][2]
        /\ \A n \in 1..Len(scored) : scored[n][1] = 0
        /\ { scored[n][2] : n \in 1..Len(scored) }
              = { computeDenotation(chart, parses[n]) : n \in 1..Len(parses) }

\* the texts of tokens i..j-1 of the utterance
tokenTexts(i, j) == [p \in 1..(j - i) |-> tokens[i + p].token]

\* the rhs symbols from p on that cannot be left out
mandatoryFrom(rhs, p) ==
    Cardinality({ x \in p..Len(rhs) : ~isOptional(rhs[x]) })

RECURSIVE authorArguments(_, _, _, _, _, _), authorDenotations(_, _, _, _)
\* the argument lists the rhs symbols from p on give the semantics of an
\* author rule over tokens i..j-1: a non-terminal gives the denotation of a
\* derivation of it, a terminal of a rule with non-terminals gives its
\* literal string, a terminal of a rule of terminals gives nothing, and an
\* optional symbol that is left out gives null
authorArguments(rhs, lexical, p, i, j, fuel) ==
    IF p > Len(rhs)
    THEN IF i = j THEN {<<>>} ELSE {}
    ELSE LET word == stripOptional(rhs[p])
             heads(m) ==
                 IF isTerminal(word)
                 THEN IF tokensOf(word) = tokenTexts(i, m)
                      THEN {IF lexical THEN <<>> ELSE <<JsString(word)>>}
                      ELSE {}
                 ELSE { <<v>> : v \in authorDenotations(word, i, m, fuel) }
             present ==
                 UNION { { h \o rest :
                             h \in heads(m),
                             rest \in authorArguments(rhs, lexical, p + 1, m, j, fuel) } :
                         m \in (i + 1)..(j - mandatoryFrom(rhs, p + 1)) }
             absent ==
                 IF isOptional(rhs[p])
                 THEN { <<JsNull>> \o rest :
                          rest \in authorArguments(rhs, lexical, p + 1, i, j, fuel) }
                 ELSE {}
         IN  present \cup absent

\* the denotations of the derivations of a category over tokens i..j-1 from
\* the rules as the author wrote them and the sub-parsers, to a depth of
\* `fuel` rules; a semantics that throws gives no denotation
authorDenotations(category, i, j, fuel) ==
    LET ofRules ==
            IF fuel = 0 THEN {}
            ELSE UNION { { apply(thisRules[r].semantics, args) :
                             args \in authorArguments(thisRules[r].rhs,
                                                      isLexical(thisRules[r]),
                                                      1, i, j, fuel - 1) } :
                         r \in { r \in 1..Len(thisRules) :
                                    thisRules[r].lhs = category } }
        ofSubparsers ==
            { apply(p.semantics, <<>>) :
                p \in { p \in Range(subparserResults(<<i, j>>)) :
                           p.category = category } }
    IN  (ofRules \cup ofSubparsers) \ {Thrown}

\* every derivation of the author's rules has its like in what parse returns
authorDerivationsParsed ==
    \A r \in 1..Len(thisRules) :
        \A v \in authorDenotations(thisRules[r].lhs, 0, Len(tokens), MaxDepth) :
            \E n \in 1..Len(parses) :
                /\ parses[n].category = thisRules[r].lhs
                /\ computeDenotation(chart, parses[n]) = v

(* C3: normalization preserves the language: the constructor accepts the   *)
(* author's rules, and whenever a token sequence has a derivation from     *)
(* them with denotation v, parse over the normalized tables returns a      *)
(* derivation of the same category whose denotation is v.                  *)
C3_NormalizationPreservesLanguage ==
    /\ gPc # "failed"
    /\ (pc = "done" /\ Len(tokens) > 0 /\ rootsArg = JsArray(<<>>))
          => authorDerivationsParsed

\* the derivations parse has made from the rules so far
derivationsOfRules ==
    UNION {{chart[q][n] : n \in {m \in 1..Len(chart[q]) :
                                    ~fromSubparser(chart[q][m])}} :
           q \in DOMAIN chart}

(* C15, as the code has it: a derivation of a unary or binary rule has as  *)
(* many children as its rule has rhs symbols, and a derivation of a        *)
(* lexical rule has no child, whatever the arity of its rule.              *)
C15_ChildrenMatchArityExceptLexical ==
    \A d \in derivationsOfRules :
        IF isLexical(d.rule)
        THEN Len(d.children) = 0
        ELSE /\ arity(d.rule) \in {1, 2}
             /\ Len(d.children) = arity(d.rule)

\* parse returned with derivations of a lexical, a unary and a binary rule
\* in the chart
C15_Witness ==
    /\ pc = "done"
    /\ \E d \in derivationsOfRules : isLexical(d.rule)
    /\ \E d \in derivationsOfRules : ~isLexical(d.rule) /\ arity(d.rule) = 1
    /\ \E d \in derivationsOfRules : ~isLexical(d.rule) /\ arity(d.rule) = 2

(* C15, as stated: every derivation made from a lexical, unary or binary   *)
(* rule has exactly arity-many children.                                   *)
C15_ChildrenMatchArity ==
    \A d \in derivationsOfRules : Len(d.children) = arity(d.rule)

\* the grammar was given one rule, whose rhs is a single optional symbol
singleOptionalRule ==
    /\ Len(thisRules) = 1
    /\ Len(thisRules[1].rhs) = 1
    /\ isOptional(thisRules[1].rhs[1])

\* every rule stored in the three tables
storedRules ==
    UNION {Range(lexicalRules[key]) : key \in DOMAIN lexicalRules}
    \cup UNION {Range(unaryRules[key]) : key \in DOMAIN unaryRules}
    \cup UNION {Range(binaryRules[key]) : key \in DOMAIN binaryRules}

(* C16: a rule whose rhs is the single optional symbol ?x is accepted by   *)
(* the Grammar constructor, and the tables then hold the rule with rhs x   *)
(* and the original semantics; the rule with the optional omitted calls    *)
(* the original semantics with null at position 0.                         *)
C16_SingleOptionalNormalizesToTwoRules ==
    singleOptionalRule =>
        /\ gPc # "failed"
        /\ gPc = "ready" =>
              \E r \in storedRules :
                  /\ r.lhs = thisRules[1].lhs
                  /\ r.rhs = <<stripOptional(thisRules[1].rhs[1])>>
                  /\ r.semantics = thisRules[1].semantics

(* C19: every rule stored in lexicalRules has an all-terminal rhs, every   *)
(* rule in unaryRules is categorical with one rhs symbol and is filed      *)
(* under that symbol, every rule in binaryRules is categorical with two    *)
(* rhs symbols and is filed under the pair; no stored rule has an          *)
(* optional symbol, mixes terminals with non-terminals, or is categorical  *)
(* with more than two symbols.                                             *)
C19_TablesHoldNormalizedRules ==
    /\ \A key \in DOMAIN lexicalRules : \A r \in Range(lexicalRules[key]) :
          \A p \in 1..Len(r.rhs) : isTerminal(r.rhs[p])
    /\ \A key \in DOMAIN unaryRules : \A r \in Range(unaryRules[key]) :
          /\ Len(r.rhs) = 1
          /\ isNonTerminal(r.rhs[1])
          /\ key = r.rhs[1]
    /\ \A key \in DOMAIN binaryRules : \A r \in Range(binaryRules[key]) :
          /\ Len(r.rhs) = 2
          /\ isNonTerminal(r.rhs[1]) /\ isNonTerminal(r.rhs[2])
          /\ key = r.rhs[1] \o <<",">> \o r.rhs[2]
    /\ \A r \in storedRules :
          /\ \A p \in 1..Len(r.rhs) : ~isOptional(r.rhs[p])
          /\ (\A p \in 1..Len(r.rhs) : isTerminal(r.rhs[p]))
                \/ (\A p \in 1..Len(r.rhs) : isNonTerminal(r.rhs[p]))
          /\ (\A p \in 1..Len(r.rhs) : isNonTerminal(r.rhs[p])) => Len(r.rhs) <= 2

\* construction returned for a grammar whose author rule has optionals,
\* mixes a terminal with non-terminals and has three rhs symbols, and the
\* three tables are filled
C19_Witness ==
    /\ gPc = "ready"
    /\ \E r \in Range(thisRules) :
          /\ \E p \in 1..Len(r.rhs) : isOptional(r.rhs[p])
          /\ Len(r.rhs) > 2
          /\ \E p \in 1..Len(r.rhs) : isNonTerminal(r.rhs[p])
    /\ DOMAIN lexicalRules # {}
    /\ DOMAIN unaryRules # {}
    /\ DOMAIN binaryRules # {}

\* the 1-based rhs positions of a rule that hold an optional symbol
optionalPositions(rule) == {p \in 1..Len(rule.rhs) : isOptional(rule.rhs[p])}

RECURSIVE expandOptionals(_, _)
\* the optional-free rules that the optional branch of processRules makes
\* of a rule, each with the positions of the author's rhs that it keeps;
\* `kept` gives those positions for the rhs at hand
expandOptionals(rule, kept) ==
    IF ~hasOptionals(rule)
    THEN [ok |-> TRUE, out |-> <<[rule |-> rule, kept |-> kept]>>]
    ELSE LET made == processOptionalRule(rule)
             p == optionalIndexOf(rule)
         IN  IF ~allReturned(made)
             THEN [ok |-> FALSE, out |-> <<>>]
             ELSE LET with == expandOptionals(made[1].value, kept)
                      without == expandOptionals(
                          made[2].value,
                          SubSeq(kept, 1, p - 1) \o SubSeq(kept, p + 1, Len(kept)))
                  IN  [ok |-> with.ok /\ without.ok, out |-> with.out \o without.out]

\* 2^k
RECURSIVE pow2(_)
pow2(k) == IF k = 0 THEN 1 ELSE 2 * pow2(k - 1)

\* the arguments parse passes to the semantics of a rule that keeps the
\* positions `kept`: one denotation per child, none for a lexical rule
childDenotations(rule, kept) ==
    IF isLexical(rule) THEN <<>> ELSE [c \in 1..Len(kept) |-> JsNumber(kept[c])]

\* the call of the author's function that the claim describes: the child
\* denotations at their positions of the author's rhs, null at the
\* omitted positions
calledInPlace(got, rule, author, kept) ==
    /\ got.t = "Value"
    /\ got.f = author.semantics.id
    /\ \A p \in 1..Len(author.rhs) :
          IF p \in Range(kept)
          THEN IF isLexical(rule)
               THEN p > Len(got.args) \/ got.args[p] = JsUndefined
               ELSE p <= Len(got.args) /\ got.args[p] = JsNumber(p)
          ELSE p <= Len(got.args) /\ got.args[p] = JsNull

\* a rule that needs no further rewriting
installable(rule) ==
    isLexical(rule) \/ (isCategorical(rule) /\ Len(rule.rhs) <= 2)

(* C20: a rule with k optional symbols is rewritten into 2^k rules without *)
(* optionals, one per subset of optionals kept; the first step makes the   *)
(* keeping rule tagged tag_<word> with the author's semantics and the      *)
(* omitting rule tagged tag_~<word>; every resulting rule calls the        *)
(* author's semantics with the child denotations at their rhs positions    *)
(* and null at exactly the omitted positions.                              *)
C20_OptionalExpansion ==
    \A n \in 1..Len(thisRules) :
        LET author == thisRules[n]
            k == Cardinality(optionalPositions(author))
            e == expandOptionals(author, [p \in 1..Len(author.rhs) |-> p])
            first == processOptionalRule(author)
            word == sliceFrom(author.rhs[optionalIndexOf(author)], 1)
        IN  k > 0 =>
              /\ gPc # "failed"
              /\ gPc = "ready" =>
                    /\ e.ok
                    /\ Len(e.out) = pow2(k)
                    /\ \A a, b \in 1..Len(e.out) :
                          a # b => e.out[a].kept # e.out[b].kept
                    /\ \A a \in 1..Len(e.out) :
                          /\ ~hasOptionals(e.out[a].rule)
                          /\ installable(e.out[a].rule) =>
                                e.out[a].rule \in storedRules
                          /\ calledInPlace(
                                apply(e.out[a].rule.semantics,
                                      childDenotations(e.out[a].rule, e.out[a].kept)),
                                e.out[a].rule, author, e.out[a].kept)
                    /\ first[1].value.tag = author.tag \o <<"_">> \o word
                    /\ first[1].value.semantics = author.semantics
                    /\ first[2].value.tag = author.tag \o <<"_", "~">> \o word

(* C18: processRules terminates on every list of author rules: the work   *)
(* queue eventually becomes empty and the loop is left with the tables,    *)
(* whatever the mix of optional, mixed, n-ary, lexical, unary and binary   *)
(* rules.                                                                  *)
C18_QueueEventuallyEmpty ==
    <>(gPc = "ready" /\ Len(rules) = 0)

\* the number of keys the featurizers return, summed over the featurizers
RECURSIVE keyCount(_)
keyCount(outputs) ==
    IF Len(outputs) = 0 THEN 0
    ELSE Cardinality(DOMAIN Head(outputs)) + keyCount(Tail(outputs))

(* C17: the keys of ConcatFeaturizer's output are unique: two different    *)
(* (featurizer index, feature key) pairs never get the same output key,    *)
(* so the output has as many keys as the featurizers returned together,    *)
(* and each holds the value of its featurizer, also when featurizers       *)
(* share key names or the keys end in _<digits>.                           *)
C17_ConcatKeysUnique ==
    concatPc = "returned" =>
        /\ \A i, j \in 1..Len(newFeatures) :
              \A f \in DOMAIN newFeatures[i] : \A g \in DOMAIN newFeatures[j] :
                  <<i, f>> # <<j, g>> =>
                      f \o <<"_">> \o numberToString(i - 1)
                          # g \o <<"_">> \o numberToString(j - 1)
        /\ Cardinality(DOMAIN features) = keyCount(newFeatures)
        /\ \A i \in 1..Len(newFeatures) : \A f \in DOMAIN newFeatures[i] :
              /\ f \o <<"_">> \o numberToString(i - 1) \in DOMAIN features
              /\ features[f \o <<"_">> \o numberToString(i - 1)] = newFeatures[i][f]

\* transform returned on featurizers at indices 0 and 10 that share the key
\* a_1 with different values
C17_Witness ==
    /\ concatPc = "returned"
    /\ Len(newFeatures) = 11
    /\ <<"a", "_", "1">> \in DOMAIN newFeatures[1]
    /\ <<"a", "_", "1">> \in DOMAIN newFeatures[11]
    /\ newFeatures[1][<<"a", "_", "1">>] # newFeatures[11][<<"a", "_", "1">>]
    /\ <<"a", "1">> \in DOMAIN newFeatures[1]
    /\ <<"a">> \in DOMAIN newFeatures[11]

-----------------------------------------------------------------------------
(* C11: fit of a LinearRanker or a SoftmaxRanker, called with arrays of    *)
(* different lengths, raises an error before any epoch runs, and leaves    *)
(* the ranker's weights exactly as they were before the call.              *)

C11_MismatchedFitRaisesAndKeepsWeights ==
    (rankOut.op = "fit"
        /\ Len(fitFrame.utterances) # Len(fitFrame.denotations)) =>
        /\ rankOut.status = "raised"
        /\ rankOut.error = "AssertionError"
        /\ rankPc = "idle"
        /\ fitFrame.epoch = 0
        /\ fitFrame.epochOrder = <<>>
        /\ fitFrame.curLoss = JsUndefined
        /\ weights = entryWeights

\* fit has raised on arrays of different lengths, on a ranker whose weights
\* an earlier fit had set
C11_Witness ==
    /\ rankOut = Raised("fit", "AssertionError")
    /\ Len(fitFrame.utterances) # Len(fitFrame.denotations)
    /\ DOMAIN entryWeights # {}
    /\ weights = entryWeights

-----------------------------------------------------------------------------
(* C12: during LinearRanker.fit, a sample for which no parse has the       *)
(* labelled denotation (a sample without any parse included) is skipped:   *)
(* fit does not raise, the sample adds 0 to the loss of the epoch and      *)
(* changes no weight, and training goes on with the next sample.           *)

\* the label of the sample the loop of fit is at
currentLabel == fitFrame.denotations[fitFrame.epochOrder[fitFrame.i + 1] + 1]

C12_SampleWithoutCorrectParseIsSkipped ==
    [][(/\ rankerClass = "linear"
        /\ rankPc = "parsing"
        /\ rankPc' # "parsing"
        /\ pc = "done"
        /\ correctParses(chart, parses, currentLabel) = {})
       => (/\ rankPc' = "sample"
           /\ rankOut' = Running("fit")
           /\ fitFrame'.i = fitFrame.i + 1
           /\ fitFrame'.curLoss = fitFrame.curLoss
           /\ weights' = weights)]_vars

-----------------------------------------------------------------------------
(* C13: on a ranker that was never fitted (its weight map is empty),       *)
(* scoresAndParses, scoresAndDenotations, topParse and topDenotation do    *)
(* not fail for any utterance, one without a parse included, and score     *)
(* every parse as all-zero weights would.                                  *)

\* a weight of 0 for every feature of the parses in ps
zeroWeights(ch, ps) ==
    [feature \in UNION {DOMAIN parseCounts(ch, ps[n]) : n \in 1..Len(ps)} |->
        IF rankerClass = "linear" THEN <<>> ELSE Zero]

C13_FreshScoringDoesNotFail ==
    (/\ fits = 0
     /\ DOMAIN weights = {}
     /\ rankOut.op \in ScoringOps \ {"parse"}
     /\ rankOut.status # "running") =>
        /\ rankOut.status = "returned"
        /\ rankOut \in rankOutcomes(rankOut.op, zeroWeights(chart, parses),
                                    chart, parses)

-----------------------------------------------------------------------------
(* C14: calls of parse, scoresAndParses, scoresAndDenotations, topParse    *)
(* and topDenotation leave the grammar's lexicalRules, unaryRules,         *)
(* binaryRules and roots and the ranker's weights unchanged; a call of fit *)
(* changes the ranker's weights only, never the grammar's tables or rules. *)

C14_CallsLeaveGrammarAndScoringLeavesWeights ==
    [][gPc = "ready" =>
          /\ lexicalRules' = lexicalRules
          /\ unaryRules' = unaryRules
          /\ binaryRules' = binaryRules
          /\ roots' = roots
          /\ thisRules' = thisRules
          /\ rules' = rules
          /\ (rankOut'.op \in ScoringOps => weights' = weights)]_vars

\* a scoring method has returned on a ranker that a fit had changed the
\* weights of
C14_Witness ==
    /\ rankOut.op = "topDenotation"
    /\ rankOut.status = "returned"
    /\ fits > 0
    /\ DOMAIN weights # {}
    /\ gPc = "ready"
    /\ lexicalRules # emptyTable

-----------------------------------------------------------------------------
(* C21: a terminal w of a mixed rule is replaced, in the lifted rule, by   *)
(* the non-terminal $@ followed by the tokens of w joined with '-'; for    *)
(* each key one lexical rule $@key -> w is installed, whose semantics      *)
(* returns w; so every $@ symbol in the rhs of a stored rule is the lhs of *)
(* a stored lexical rule, whatever the tokenizer does to w.                *)

\* a symbol made by processMixedRule, and not an intermediate category that
\* processNaryRule made of such symbols
isLifted(symbol) ==
    /\ Len(symbol) >= 2
    /\ symbol[1] = "$"
    /\ symbol[2] = "@"
    /\ symbol \notin generatedNaryRules

\* the rules in lexicalRules
storedLexicalRules ==
    UNION {Range(lexicalRules[key]) : key \in DOMAIN lexicalRules}

C21_LiftedSymbolsHaveLexicalRules ==
    gPc = "ready" =>
        /\ \A r \in storedRules : \A p \in 1..Len(r.rhs) :
              isLifted(r.rhs[p]) =>
                  \E l \in storedLexicalRules : l.lhs = r.rhs[p]
        /\ \A l \in storedLexicalRules :
              isLifted(l.lhs) =>
                  /\ Len(l.rhs) = 1
                  /\ l.lhs = <<"$", "@">> \o lexicalElementKey(l.rhs[1])
                  /\ l.semantics = Literal(l.rhs[1])
                  /\ \A m \in storedLexicalRules : m.lhs = l.lhs => m = l

-----------------------------------------------------------------------------
(* C22: a categorical rule lhs -> X1 X2 ... Xn with n > 2 is stored as     *)
(* binary rules made from left to right over the intermediate categories   *)
(* X1_X2, X1_X2_X3, ...; each intermediate category has one rule in the    *)
(* whole grammar, however many rules begin with its symbols; the rule of   *)
(* lhs keeps the tag of the original; and the denotation of a derivation   *)
(* of the stored rule of lhs is the original semantics applied to the      *)
(* denotations d1, ..., dn of the derivations of X1, ..., Xn, in the order *)
(* of the rhs.                                                             *)

\* the categorical rules of more than two symbols, as the author wrote them
authorNaryRules ==
    { r \in Range(thisRules) :
        /\ Len(r.rhs) > 2
        /\ \A p \in 1..Len(r.rhs) : isNonTerminal(r.rhs[p]) /\ ~isOptional(r.rhs[p]) }

\* X1_X2_..._Xk
intermediateCategory(rhs, k) == join(SubSeq(rhs, 1, k), <<"_">>)

\* the entries of binaryRules whose rule has this lhs
binaryEntriesOf(lhs) ==
    { e \in UNION { {<<key, n>> : n \in 1..Len(binaryRules[key])} :
                    key \in DOMAIN binaryRules } :
        binaryRules[e[1]][e[2]].lhs = lhs }

\* the stored rule lhs -> X1_..._X(n-1) Xn of an author's rule
isResidualOf(stored, r) ==
    /\ stored.lhs = r.lhs
    /\ stored.tag = r.tag
    /\ stored.rhs = <<intermediateCategory(r.rhs, Len(r.rhs) - 1), r.rhs[Len(r.rhs)]>>

RECURSIVE naryChildren(_, _, _)
\* the derivations of X1, ..., Xn under a derivation of X1_..._Xn (or of
\* the stored rule of lhs)
naryChildren(ch, d, n) ==
    IF n = 2
    THEN <<deref(ch, d.children[1]), deref(ch, d.children[2])>>
    ELSE naryChildren(ch, deref(ch, d.children[1]), n - 1)
         \o <<deref(ch, d.children[2])>>

binarizedStructure ==
    \A r \in authorNaryRules :
        /\ \A k \in 2..(Len(r.rhs) - 1) :
              /\ Cardinality(binaryEntriesOf(intermediateCategory(r.rhs, k))) = 1
              /\ \A e \in binaryEntriesOf(intermediateCategory(r.rhs, k)) :
                    /\ binaryRules[e[1]][e[2]].rhs =
                          <<intermediateCategory(r.rhs, k - 1), r.rhs[k]>>
                    /\ binaryRules[e[1]][e[2]].semantics = Tuple
        /\ \E e \in binaryEntriesOf(r.lhs) : isResidualOf(binaryRules[e[1]][e[2]], r)

\* a parse that a rule made, not a sub-parser
isDerivation(parse) == "rule" \in DOMAIN parse

binarizedDenotations ==
    \A cell \in DOMAIN chart : \A n \in 1..Len(chart[cell]) :
        \A r \in authorNaryRules :
            (isDerivation(chart[cell][n]) /\ isResidualOf(chart[cell][n].rule, r)) =>
                LET d == naryChildren(chart, chart[cell][n], Len(r.rhs))
                IN  computeDenotation(chart, chart[cell][n]) =
                        apply(r.semantics,
                              [p \in 1..Len(d) |-> computeDenotation(chart, d[p])])

C22_BinarizationKeepsSemantics ==
    /\ gPc = "ready" => binarizedStructure
    /\ binarizedDenotations

\* a b c d is parsed with the rule of four symbols, whose first two symbols
\* also begin the rule of three
C22_Witness ==
    /\ gPc = "ready"
    /\ pc = "done"
    /\ Cardinality(authorNaryRules) = 2
    /\ Cardinality(binaryEntriesOf(symA \o <<"_">> \o symB)) = 1
    /\ \E n \in 1..Len(parses) :
          /\ parses[n].tag = <<"t">>
          /\ computeDenotation(chart, parses[n]) =
                Value("four", <<Value("A", <<>>), Value("B", <<>>),
                                Value("C", <<>>), Value("D", <<>>)>>)

-----------------------------------------------------------------------------
(* C23: in each chart cell the unary pass visits only the derivations the  *)
(* cell held when the pass began: a derivation that a unary rule appended  *)
(* in the pass is not itself given to the unary rules in that cell, so no  *)
(* derivation of a unary rule in a cell has a derivation of a unary rule   *)
(* as its child.                                                           *)

\* a derivation the unary pass appended: its one child lies in its own cell
isUnaryDerivation(d) == Len(d.children) = 1

C23_SingleUnaryStepPerCell ==
    \A q \in DOMAIN chart : \A n \in 1..Len(chart[q]) :
        isUnaryDerivation(chart[q][n]) =>
            ~isUnaryDerivation(deref(chart, chart[q][n].children[1]))

-----------------------------------------------------------------------------
(* C24: parse fills the cells by increasing length and, within a length,   *)
(* by increasing start; in every cell the parses of the sub-parsers, in    *)
(* the order of the sub-parsers, come before the derivations of the        *)
(* lexical rules, these before the derivations of the binary rules (by     *)
(* increasing split point, then index of the left derivation, then index   *)
(* of the right derivation, then order of the rules), and these before the *)
(* derivations of the unary rules; a cell that a binary step reads was     *)
(* filled before and does not change afterwards; and a second call of      *)
(* parse on the same grammar and utterance returns the same sequence of    *)
(* derivation trees.                                                       *)

\* 0 sub-parser, 1 lexical, 2 binary, 3 unary
stageOf(parse) ==
    IF ~isDerivation(parse) THEN 0
    ELSE IF Len(parse.children) = 0 THEN 1
    ELSE IF Len(parse.children) = 2 THEN 2
    ELSE 3

stagePart(cell, stage) == SelectSeq(cell, LAMBDA parse : stageOf(parse) = stage)

\* (k1, k2, k3) comes before (h1, h2, h3)
comesBefore(k, h) ==
    \/ k[1] < h[1]
    \/ k[1] = h[1] /\ k[2] < h[2]
    \/ k[1] = h[1] /\ k[2] = h[2] /\ k[3] < h[3]

\* split point, index of the left derivation, index of the right derivation
binaryOrderKey(d) == <<d.children[1].j, d.children[1].n, d.children[2].n>>

\* the rules a binary derivation was chosen from
binaryRulesOf(d) ==
    lookup(binaryRules,
           arrayKey(<<deref(chart, d.children[1]).category,
                      deref(chart, d.children[2]).category>>))

\* the loops over cell q are at the named stage or past it
stageReached(q, stage) ==
    \/ q # <<spanI, spanJ>>
    \/ pc \notin {"subparsers"} \cup (IF stage = "binary" THEN {"lexical"} ELSE {})

cellInOrder(q) ==
    LET cell == chart[q]
        binary == stagePart(cell, 2)
    IN  /\ \A m, n \in 1..Len(cell) : m < n => stageOf(cell[m]) <= stageOf(cell[n])
        /\ stageReached(q, "lexical") => stagePart(cell, 0) = subparserResults(q)
        /\ stageReached(q, "binary") =>
              [n \in 1..Len(stagePart(cell, 1)) |-> stagePart(cell, 1)[n].rule]
                 = lookup(lexicalRules, arrayKey(tokenSpanOf(tokens, q[1], q[2])))
        /\ \A n \in 1..Len(binary) :
              /\ binary[n].children[1].i = q[1]
              /\ binary[n].children[1].j = binary[n].children[2].i
              /\ binary[n].children[2].j = q[2]
              /\ q[1] < binary[n].children[1].j /\ binary[n].children[1].j < q[2]
        /\ \A m, n \in 1..Len(binary) :
              m < n =>
                 \/ comesBefore(binaryOrderKey(binary[m]), binaryOrderKey(binary[n]))
                 \/ /\ binaryOrderKey(binary[m]) = binaryOrderKey(binary[n])
                    /\ \E a, b \in 1..Len(binaryRulesOf(binary[m])) :
                          /\ a < b
                          /\ binaryRulesOf(binary[m])[a] = binary[m].rule
                          /\ binaryRulesOf(binary[m])[b] = binary[n].rule

parseRunning == pc \in {"subparsers", "lexical", "binary", "unary", "return"}

\* the cells that come before <<i, i + l>>, and that cell if it was begun
cellsUpTo(l, i, begun) ==
    { q \in (0..Len(tokens)) \X (0..Len(tokens)) :
        /\ q[1] < q[2]
        /\ \/ q[2] - q[1] < l
           \/ q[2] - q[1] = l /\ q[1] < i
           \/ q[2] - q[1] = l /\ q[1] = i /\ begun }

cellsFilledInOrder ==
    parseRunning => DOMAIN chart = cellsUpTo(spanL, spanI, pc # "subparsers")

secondCallReturnsTheSame ==
    (pc = "done" /\ earlier # NoCall /\ earlier.utterance = utterance) =>
        /\ parses = earlier.parses
        /\ chart = earlier.chart

\* a step of a running parse changes no cell but the one being filled
filledCellsStay ==
    parseRunning =>
        \A q \in DOMAIN chart :
            q # <<spanI, spanJ>> => q \in DOMAIN chart' /\ chart'[q] = chart[q]

C24_EnumerationOrder ==
    /\ [](/\ \A q \in DOMAIN chart : cellInOrder(q)
          /\ cellsFilledInOrder
          /\ secondCallReturnsTheSame)
    /\ [][filledCellsStay]_vars

\* a b c d was parsed twice; the cell of a b c holds the parse of a
\* sub-parser and four binary derivations, over two left and two right ones
C24_Witness ==
    /\ pc = "done"
    /\ earlier # NoCall
    /\ earlier.utterance = utterance
    /\ Len(tokens) = 4
    /\ Len(parses) = 4
    /\ Len(stagePart(chart[<<0, 3>>], 0)) = 1
    /\ Len(stagePart(chart[<<0, 3>>], 2)) = 4
    /\ \E q \in DOMAIN chart : Len(stagePart(chart[q], 3)) > 0

-----------------------------------------------------------------------------
(* C25: derivations are never deduplicated.  The tables keep an entry for  *)
(* every rule, also for rules with the same lhs and rhs (with the same or  *)
(* with another tag or semantics), and every application of a rule to its  *)
(* children in a cell makes a derivation of its own: the number of parses  *)
(* in a filled cell is the number of parses of the sub-parsers plus the    *)
(* number of applications of lexical, binary and unary rules for the cell. *)

\* (table, key, index)
tableSlots ==
    UNION { { <<t, key, n>> :
                key \in DOMAIN (<<lexicalRules, unaryRules, binaryRules>>[t]),
                n \in 1..MaxCell } :
            t \in 1..3 }

\* the slot holds a rule with this lhs and rhs
entryPresent(e, lhs, rhs) ==
    LET table == <<lexicalRules, unaryRules, binaryRules>>[e[1]]
    IN  /\ e[3] <= Len(table[e[2]])
        /\ table[e[2]][e[3]].lhs = lhs
        /\ table[e[2]][e[3]].rhs = rhs

\* every rule that is stored as it was written has its entry, however many
\* other rules have its lhs and rhs
rulesKept ==
    \A r \in Range(thisRules) :
        (installable(r) /\ ~hasOptionals(r)) =>
            Cardinality({ e \in tableSlots :
                            entryPresent(e, r.lhs, r.rhs) })
              >= Cardinality({ n \in 1..Len(thisRules) :
                                 /\ thisRules[n].lhs = r.lhs
                                 /\ thisRules[n].rhs = r.rhs })

cellFilled(q) ==
    \/ q # <<spanI, spanJ>>
    \/ pc \notin {"subparsers", "lexical", "binary", "unary", "threw"}

lexicalApplications(q) ==
    Len(lookup(lexicalRules, arrayKey(tokenSpanOf(tokens, q[1], q[2]))))

\* (split, left index, right index, rule index)
binaryApplications(q) ==
    Cardinality(
        { t \in ((q[1] + 1)..(q[2] - 1)) \X (1..MaxCell) \X (1..MaxCell) \X (1..MaxCell) :
            /\ t[2] <= Len(chart[<<q[1], t[1]>>])
            /\ t[3] <= Len(chart[<<t[1], q[2]>>])
            /\ t[4] <= Len(binaryRulesFor(binaryRules,
                                          chart[<<q[1], t[1]>>][t[2]],
                                          chart[<<t[1], q[2]>>][t[3]])) })

\* (index of the parse in the cell, rule index)
unaryApplications(q) ==
    Cardinality(
        { t \in (1..Len(chart[q])) \X (1..MaxCell) :
            t[2] <= Len(lookup(unaryRules, chart[q][t[1]].category)) })

C25_NoDeduplication ==
    /\ gPc = "ready" => rulesKept
    /\ \A q \in DOMAIN chart :
          cellFilled(q) =>
              Len(chart[q]) = Len(subparserResults(q)) + lexicalApplications(q)
                              + binaryApplications(q) + unaryApplications(q)

\* x a b d is parsed: the two rules $A -> a give two derivations of a, and
\* the two rules $S -> x $R two derivations of each of the two of a b d
C25_Witness ==
    /\ pc = "done"
    /\ Len(tokens) = 4
    /\ Len(chart[<<1, 2>>]) = 3
    /\ chart[<<1, 2>>][2].category = symA
    /\ chart[<<1, 2>>][3].category = symA
    /\ chart[<<1, 2>>][2].span = chart[<<1, 2>>][3].span
    /\ Len(parses) = 4
    /\ \A n \in 1..4 : parses[n].category = symS
    /\ parses[1].children = parses[2].children
    /\ parses[1].rule.rhs = parses[2].rule.rhs
    /\ parses[1].tag # parses[2].tag

-----------------------------------------------------------------------------
(* C26: fit compares the loss of each epoch with the loss accumulated in   *)
(* the epoch before it (infinity before the first epoch only) and returns  *)
(* at the end of the first epoch whose loss is within tol of that; if no   *)
(* epoch is, it returns after maxEpochs epochs.                            *)

\* an epoch begins: every epoch below maxEpochs is run, with the loss of
\* the epoch before as the old loss
epochBeginsWithPreviousLoss ==
    (rankPc = "epoch" /\ rankPc' # "epoch") =>
        IF fitFrame.epoch < maxEpochs
        THEN /\ rankPc' = "sample"
             /\ fitFrame'.oldLoss = (IF fitFrame.epoch = 0
                                     THEN Infinity
                                     ELSE fitFrame.curLoss)
        ELSE rankOut'.op = "fit" /\ rankOut'.status = "returned"

\* an epoch ends: fit returns when the two losses are within tol, and goes
\* on to the next epoch when they are not
epochEndsOnTolerance ==
    (rankPc = "sample" /\ rankPc' \in {"idle", "epoch"}
        /\ fitFrame.i >= Len(fitFrame.utterances)) =>
        /\ (rankPc' = "idle") \in
              (IF rankerClass = "linear"
               THEN {absDifferenceAtMost(fitFrame.curLoss, fitFrame.oldLoss, tol)}
               ELSE softmaxWithinTol(fitFrame.curLoss, fitFrame.oldLoss))
        /\ rankPc' = "idle" => (rankOut'.op = "fit" /\ rankOut'.status = "returned")

C26_FitStopsOnPreviousLoss ==
    [][epochBeginsWithPreviousLoss /\ epochEndsOnTolerance]_vars

-----------------------------------------------------------------------------
(* C27: the regularization that fit applies lazily amounts to one factor   *)
(* (1 - learningRate * regularization) per sample: when an epoch of N      *)
(* samples has ended, for every feature of the weights, the exponents of   *)
(* the factors its weight was multiplied by in the epoch (at each update,  *)
(* i minus the index of the update before; at the end of the epoch, N      *)
(* minus the index of the last update) add up to N, wherever and however   *)
(* often the feature was updated, and also if it never was.                *)

\* an epoch has just ended: fit has returned, or stands before the next one
epochEnded ==
    \/ rankPc = "epoch" /\ fitFrame.epoch > 0
    \/ rankPc = "idle" /\ rankOut.op = "fit" /\ rankOut.status = "returned"

C27_LazyRegularizationExponents ==
    epochEnded =>
        /\ DOMAIN fitFrame.exponents = DOMAIN weights
        /\ \A feature \in DOMAIN weights :
              fitFrame.exponents[feature] = Len(fitFrame.utterances)

\* a second epoch of two samples has ended in which one feature was
\* updated at the second sample only, one at the first, and one not at all
C27_Witness ==
    /\ epochEnded
    /\ Len(fitFrame.utterances) = 2
    /\ \E f, g, h \in DOMAIN weights :
          /\ f \in DOMAIN fitFrame.updateTimes /\ fitFrame.updateTimes[f] = 1
          /\ g \in DOMAIN fitFrame.updateTimes /\ fitFrame.updateTimes[g] = 0
          /\ h \notin DOMAIN fitFrame.updateTimes

-----------------------------------------------------------------------------
(* C28: ParsePrecedenceFeaturizer.transform returns, for every pair of     *)
(* tags (a, t), the number of nodes with tag t that have a proper ancestor *)
(* with tag a, and no other feature: a sibling, or a node under a sibling, *)
(* gives a node no feature; and transform leaves the parse as it was.      *)

RECURSIVE nodesOf(_)
\* the nodes of a tree, each as the child positions on the way from the root
nodesOf(parse) ==
    {<<>>} \cup
    UNION { { <<c>> \o path : path \in nodesOf(parse.children[c]) } :
            c \in 1..Len(parse.children) }

RECURSIVE nodeAt(_, _)
nodeAt(parse, path) ==
    IF path = <<>> THEN parse
    ELSE nodeAt(parse.children[Head(path)], Tail(path))

\* the nodes with tag t that have a proper ancestor with tag a
nodesUnder(parse, a, t) ==
    { path \in nodesOf(parse) :
        /\ nodeAt(parse, path).tag = t
        /\ \E k \in 0..(Len(path) - 1) : nodeAt(parse, SubSeq(path, 1, k)).tag = a }

precedenceCounted ==
    precPc = "returned" =>
        /\ \A a, t \in PrecTags :
              featureOr0(precFeatures, arrayKey(<<a, t>>))
                 = Cardinality(nodesUnder(precParse, a, t))
        /\ \A key \in DOMAIN precFeatures :
              \E a, t \in PrecTags :
                 /\ key = arrayKey(<<a, t>>)
                 /\ nodesUnder(precParse, a, t) # {}

C28_PrecedenceCountsAncestors ==
    /\ []precedenceCounted
    /\ [][precParse' = precParse]_vars

-----------------------------------------------------------------------------
(* C29: every rule that processRules takes from its queue, an author's or  *)
(* one made during normalization, is of a shape the loop handles:          *)
(* optional, mixed, categorical of more than two symbols, lexical, unary   *)
(* or binary; the last branch, which throws 'Issue processing Rule         *)
(* instance', is never taken, and the Grammar constructor never fails      *)
(* because of the shape of a rule.                                         *)

\* the rule at the head of the queue reaches the last three branches
\* only as a lexical, a unary or a binary rule
lastBranchUnreachable ==
    installing =>
        \/ isLexical(Head(rules))
        \/ isUnary(Head(rules))
        \/ isBinary(Head(rules))

C29_EveryRuleShapeHandled ==
    /\ lastBranchUnreachable
    /\ gPc # "failed"

-----------------------------------------------------------------------------
(* C30: the epoch order shuffle(range(numSamples)) of fit is a permutation *)
(* of 0..numSamples-1 whatever numbers are drawn, so that an epoch visits  *)
(* every sample exactly once; shuffle returns an array of its own and      *)
(* leaves the array it was given as it was.                                *)

\* every one of 0..n-1 at exactly one index of the n
isEpochOrder(order, n) ==
    /\ Len(order) = n
    /\ \A sample \in 0..(n - 1) :
          Cardinality({p \in 1..n : order[p] = sample}) = 1

shuffledIsPermutation ==
    /\ shufPc = "returned" => isEpochOrder(shufCopy, Len(shufArr))
    /\ shufPc # "off" =>
          \A order \in shuffle(shufArr) : isEpochOrder(order, Len(shufArr))
    /\ rankPc \in {"sample", "parsing"} =>
          isEpochOrder(fitFrame.epochOrder, Len(fitFrame.utterances))

C30_ShuffleIsPermutation ==
    /\ []shuffledIsPermutation
    /\ [][shufArr' = shufArr]_vars

\* range(5) came back reversed, and the array given is still range(5)
C30_Witness ==
    /\ shufPc = "returned"
    /\ shufArr = range(MaxShuffle)
    /\ shufCopy = [p \in 1..MaxShuffle |-> MaxShuffle - p]

====
